---- MODULE Spec2Model ----
(***************************************************************************)
(* MarketAI-Core: the campaign pipeline of src/main.py (run_pipeline) and  *)
(* the deterministic components it threads together (input parser, entity  *)
(* extractor, context searcher, strategy budget correction, budget         *)
(* allocator, creative key derivation).                                    *)
(*                                                                         *)
(* Text is modelled as a sequence of one-character strings, so that the    *)
(* substring tests, splits and replacements of the code are computed.      *)
(* A Python dict is a sequence of <<key, value>> pairs with distinct keys, *)
(* in insertion order.  An Optional[int] is <<>> (None) or <<v>>.          *)
(***************************************************************************)
EXTENDS Integers, Sequences, FiniteSets, TLC

VARIABLES
    pc,                       \* position of run_pipeline (or "idle")
    cfg,                      \* process-wide collaborators, set at import time
    raw_input_dict,           \* main.py:57
    cleaned_input,            \* main.py:67
    entities,                 \* main.py:71
    previous_results,         \* main.py:75
    trend_data,               \* main.py:80
    local_context,            \* main.py:86
    audience_persona,         \* main.py:94
    campaign_strategy,        \* main.py:101
    budget_allocation_result, \* main.py:110
    creative_content,         \* main.py:120
    visual_prompts_result,    \* main.py:129
    final_plan,               \* main.py:142
    response,                 \* what the transport layer answers
    started,                  \* the steps started so far, in order
    call,                     \* a component called on its own: its arguments
    ret,                      \* ... and what it returned
    frame                     \* ... and its local variables while it runs

pipe_vars == <<pc, cfg, raw_input_dict, cleaned_input, entities, previous_results,
               trend_data, local_context, audience_persona, campaign_strategy,
               budget_allocation_result, creative_content, visual_prompts_result,
               final_plan, response, started>>

vars == <<pc, cfg, raw_input_dict, cleaned_input, entities, previous_results,
          trend_data, local_context, audience_persona, campaign_strategy,
          budget_allocation_result, creative_content, visual_prompts_result,
          final_plan, response, started, call, ret, frame>>

-----------------------------------------------------------------------------
(* Bounds of the model *)

MaxChannels == 3        \* longest recommended_channels list
MaxBudget == 31         \* largest total_budget handed to allocate_budget alone

-----------------------------------------------------------------------------
(* Python values *)

None == <<>>
Some(v) == <<v>>
IsNone(x) == x = <<>>
Val(x) == x[1]

Min(a, b) == IF a <= b THEN a ELSE b

(* str *)

UpperChars == <<"A","B","C","D","E","F","G","H","I","J","K","L","M",
                "N","O","P","Q","R","S","T","U","V","W","X","Y","Z">>
LowerChars == <<"a","b","c","d","e","f","g","h","i","j","k","l","m",
                "n","o","p","q","r","s","t","u","v","w","x","y","z">>

LowerChar(c) ==
    IF \E i \in 1..26 : UpperChars[i] = c
    THEN LowerChars[CHOOSE i \in 1..26 : UpperChars[i] = c]
    ELSE c

\* str.lower()
Lower(s) == [i \in 1..Len(s) |-> LowerChar(s[i])]

\* str.replace(old, new) for a one-character old
RECURSIVE Replace(_, _, _)
Replace(s, old, new) ==
    IF s = <<>> THEN <<>>
    ELSE (IF Head(s) = old THEN new ELSE <<Head(s)>>) \o Replace(Tail(s), old, new)

\* str.find(sub) + 1: the first position where sub occurs in s, 0 when none
IndexOf(s, sub) ==
    LET hits == {i \in 1..(Len(s) - Len(sub) + 1) :
                    \A j \in 1..Len(sub) : s[i + j - 1] = sub[j]}
    IN IF hits = {} THEN 0 ELSE CHOOSE i \in hits : \A k \in hits : i <= k

\* sub in s
Contains(s, sub) == IndexOf(s, sub) # 0

\* s.split(sep)[0]: the text before the first sep, all of s when sep is absent
SplitFirst(s, sep) ==
    IF Contains(s, sep) THEN SubSeq(s, 1, IndexOf(s, sep) - 1) ELSE s

IsSpace(c) == c \in {" ", "\n", "\t"}

\* s.split(): is there any word at all
HasWord(s) == \E i \in 1..Len(s) : ~IsSpace(s[i])

\* s.split()[-1]: the last whitespace-delimited word
LastWord(s) ==
    LET last == CHOOSE i \in 1..Len(s) :
                    ~IsSpace(s[i]) /\ \A k \in (i+1)..Len(s) : IsSpace(s[k])
        first == CHOOSE i \in 1..last :
                    (\A k \in i..last : ~IsSpace(s[k]))
                    /\ (i = 1 \/ IsSpace(s[i-1]))
    IN SubSeq(s, first, last)

\* str.strip()
Strip(s) ==
    IF \A i \in 1..Len(s) : IsSpace(s[i]) THEN <<>>
    ELSE LET first == CHOOSE i \in 1..Len(s) :
                          ~IsSpace(s[i]) /\ \A k \in 1..(i - 1) : IsSpace(s[k])
             last == CHOOSE i \in 1..Len(s) :
                          ~IsSpace(s[i]) /\ \A k \in (i + 1)..Len(s) : IsSpace(s[k])
         IN SubSeq(s, first, last)

(* dict *)

EmptyDict == <<>>

DictHas(d, k) == \E i \in 1..Len(d) : d[i][1] = k

\* d.get(k, default)
DictGet(d, k, default) ==
    IF DictHas(d, k) THEN d[CHOOSE i \in 1..Len(d) : d[i][1] = k][2] ELSE default

\* d[k] = v
DictSet(d, k, v) ==
    IF DictHas(d, k)
    THEN [i \in 1..Len(d) |-> IF d[i][1] = k THEN <<k, v>> ELSE d[i]]
    ELSE Append(d, <<k, v>>)

\* sum(d.values())
RECURSIVE DictSum(_)
DictSum(d) == IF d = <<>> THEN 0 ELSE d[1][2] + DictSum(Tail(d))

DictMaxKey_last(d) ==
    d[CHOOSE i \in 1..Len(d) :
        /\ \A k \in 1..Len(d) : d[k][2] <= d[i][2]
        /\ \A k \in (i+1)..Len(d) : d[k][2] < d[i][2]][1]

\* max(d, key=d.get): the first key, in insertion order, holding the largest value
DictMaxKey(d) ==
    d[CHOOSE i \in 1..Len(d) :
        /\ \A k \in 1..Len(d) : d[k][2] <= d[i][2]
        /\ \A k \in 1..(i-1) : d[k][2] < d[i][2]][1]

-----------------------------------------------------------------------------
(* Text constants of the source *)

\* step_8_budget_allocator.py:21
HighestPhrase == <<"h","i","g","h","e","s","t"," ","C","o","n","v","e","r","s","i","o","n"," ","R","a","t","e">>
\* step_8_budget_allocator.py:22
HadHighestPhrase == <<" ","h","a","d"," ","t","h","e"," ","h","i","g","h","e","s","t"," ","C","o","n","v","e","r","s","i","o","n"," ","R","a","t","e">>
\* step_3_db_retriever.py:16
MockHistorySummary == <<"L","a","s","t"," ","c","a","m","p","a","i","g","n"," ","(","D","i","w","a","l","i"," ","S","a","l","e",")",":"," ","F","a","c","e","b","o","o","k"," ","A","d","s"," ","(","B","u","d","g","e","t",":"," ","3","k"," ","I","N","R",","," ","C","l","i","c","k","s",":"," ","4","5",","," ","C","o","n","v","e","r","s","i","o","n","s",":"," ","8",","," ","R","a","t","e",":"," ","1","7",".","8","%",")",","," ","P","a","m","p","h","l","e","t","s"," ","(","B","u","d","g","e","t",":"," ","2","k"," ","I","N","R",","," ","S","c","a","n","s",":"," ","1","5",","," ","C","o","n","v","e","r","s","i","o","n","s",":"," ","5",","," ","R","a","t","e",":"," ","3","3",".","3","%",")","."," ","P","a","m","p","h","l","e","t","s"," ","h","a","d"," ","h","i","g","h","e","r"," ","C","o","n","v","e","r","s","i","o","n"," ","R","a","t","e",".">>
\* step_3_db_retriever.py:28
NoHistorySummary == <<"N","o"," ","p","r","e","v","i","o","u","s"," ","c","a","m","p","a","i","g","n"," ","d","a","t","a"," ","f","o","u","n","d",".">>

-----------------------------------------------------------------------------
(* Inputs the model draws from *)

FBAds == <<"F","B"," ","A","d","s">>
Pamphlets == <<"P","a","m","p","h","l","e","t","s">>
InStore == <<"I","n","-","S","t","o","r","e">>
BnBInc == <<"B","&","B"," ","I","n","c",".">>

ChannelNames == {FBAds, Pamphlets, InStore, BnBInc}

\* every list of at most n channel names, repeated names included
RECURSIVE ChannelLists(_)
ChannelLists(n) ==
    IF n = 0 THEN {<<>>}
    ELSE LET shorter == ChannelLists(n - 1)
         IN shorter \cup {Append(l, c) : l \in {x \in shorter : Len(x) = n - 1},
                                           c \in ChannelNames}

\* history summaries: the two the mocked store returns, and summaries naming a
\* channel with the highest Conversion Rate
PamphletsHighest == Pamphlets \o HadHighestPhrase \o <<".">>
AdsHighest == <<"A","d","s">> \o HadHighestPhrase
RadioHighest == <<"R","a","d","i","o">> \o HadHighestPhrase
HighestTrailing == HighestPhrase \o <<":"," ">> \o InStore

Summaries == {MockHistorySummary, NoHistorySummary, PamphletsHighest, AdsHighest,
              RadioHighest, HighestTrailing}

NoResults == [has_summary |-> FALSE, previous_campaign_summary |-> <<>>]
Results(s) == [has_summary |-> TRUE, previous_campaign_summary |-> s]

HistoryInputs == {NoResults} \cup {Results(s) : s \in Summaries}

-----------------------------------------------------------------------------
(* step_8_budget_allocator.py *)

Unset == [unset |-> TRUE]

high_roi_channel_first(recommended_channels, prev) ==
    IF prev.has_summary /\ Contains(prev.previous_campaign_summary, HighestPhrase)
       /\ recommended_channels # <<>>
    THEN Some(recommended_channels[1])
    ELSE None

\* lines 18-32: the recommended channel the history summary names as best
high_roi_channel(recommended_channels, prev) ==
    IF prev.has_summary /\ Contains(prev.previous_campaign_summary, HighestPhrase)
    THEN LET words_before == SplitFirst(prev.previous_campaign_summary, HadHighestPhrase)
         IN IF HasWord(words_before)
            THEN LET potential_channel == LastWord(words_before)
                     hits == {i \in 1..Len(recommended_channels) :
                                 Contains(recommended_channels[i], potential_channel)}
                 IN IF hits = {} THEN None
                    ELSE Some(recommended_channels[CHOOSE i \in hits : \A k \in hits : i <= k])
            ELSE None
    ELSE None

\* lines 37-43: base + 1 for the first `remainder` positions, later duplicates of a
\* name overwriting its earlier amount
RECURSIVE base_split(_, _, _, _, _)
base_split(recommended_channels, i, base_allocation, remainder, acc) ==
    IF i > Len(recommended_channels) THEN acc
    ELSE base_split(recommended_channels, i + 1, base_allocation, remainder,
                    DictSet(acc, recommended_channels[i],
                            base_allocation + (IF i - 1 < remainder THEN 1 ELSE 0)))

reduction_of_half(alloc, channel, boost_amount, total_other_budget) ==
    DictGet(alloc, channel, 0) \div 2

\* lines 60-61: int(boost_amount * proportion) and int(allocation * 0.3); the
\* operands are non-negative, so int() is the floor
reduction_of(alloc, channel, boost_amount, total_other_budget) ==
    LET a == DictGet(alloc, channel, 0)
    IN Min((boost_amount * a) \div total_other_budget, (a * 3) \div 10)

\* lines 55-63: the reductions summed over the list, one per position
RECURSIVE boost_taken(_, _, _, _, _, _)
boost_taken(recommended_channels, i, alloc, high, boost_amount, total_other_budget) ==
    IF i > Len(recommended_channels) THEN 0
    ELSE (IF recommended_channels[i] # high
          THEN reduction_of(alloc, recommended_channels[i], boost_amount, total_other_budget)
          ELSE 0)
         + boost_taken(recommended_channels, i + 1, alloc, high, boost_amount,
                       total_other_budget)

\* lines 46-70
apply_boost(total_budget, recommended_channels, alloc, high, base_allocation) ==
    LET max_boost == base_allocation \div 2
        intended_boost == DictGet(alloc, high, 0) \div 5
        boost_amount == Min(max_boost, intended_boost)
        total_other_budget == total_budget - DictGet(alloc, high, 0)
    IN IF total_other_budget > 0
       THEN LET actual_boost_taken ==
                    boost_taken(recommended_channels, 1, alloc, high, boost_amount,
                                total_other_budget)
            IN IF actual_boost_taken > 0
               THEN [i \in 1..Len(alloc) |->
                        IF alloc[i][1] = high
                        THEN <<high, alloc[i][2] + actual_boost_taken>>
                        ELSE <<alloc[i][1],
                               alloc[i][2] - reduction_of(alloc, alloc[i][1], boost_amount,
                                                          total_other_budget)>>]
               ELSE alloc
       ELSE alloc

final_adjust_skipped(total_budget, alloc) == alloc

\* lines 73-79 and 85-89: the difference goes to the largest allocation
final_adjust(total_budget, alloc) ==
    LET diff == total_budget - DictSum(alloc)
    IN IF diff # 0 /\ alloc # <<>>
       THEN LET target_channel == DictMaxKey(alloc)
            IN DictSet(alloc, target_channel, DictGet(alloc, target_channel, 0) + diff)
       ELSE alloc

\* lines 82-83
clamp_negative(alloc) ==
    [i \in 1..Len(alloc) |-> <<alloc[i][1], IF alloc[i][2] < 0 THEN 0 ELSE alloc[i][2]>>]

\* line 13
nothing_to_allocate_single(num_channels, total_budget) ==
    num_channels <= 1 \/ total_budget <= 0

nothing_to_allocate(num_channels, total_budget) ==
    num_channels = 0 \/ total_budget <= 0

\* lines 4-93: the budget_split of the returned object
allocate_budget(total_budget, recommended_channels, prev) ==
    LET num_channels == Len(recommended_channels)
    IN IF nothing_to_allocate(num_channels, total_budget) THEN EmptyDict
       ELSE LET high == high_roi_channel(recommended_channels, prev)
                base_allocation == total_budget \div num_channels
                remainder == total_budget % num_channels
                initial == base_split(recommended_channels, 1, base_allocation,
                                      remainder, EmptyDict)
                boosted == IF ~IsNone(high) /\ DictHas(initial, Val(high))
                              /\ num_channels > 1
                           THEN apply_boost(total_budget, recommended_channels, initial,
                                            Val(high), base_allocation)
                           ELSE initial
            IN final_adjust(total_budget,
                            clamp_negative(final_adjust(total_budget, boosted)))

-----------------------------------------------------------------------------
(* The pipeline at rest, while one component is called on its own *)

PipelineIdle ==
    /\ pc = "idle"
    /\ cfg = Unset
    /\ raw_input_dict = Unset
    /\ cleaned_input = Unset
    /\ entities = Unset
    /\ previous_results = Unset
    /\ trend_data = Unset
    /\ local_context = Unset
    /\ audience_persona = Unset
    /\ campaign_strategy = Unset
    /\ budget_allocation_result = Unset
    /\ creative_content = Unset
    /\ visual_prompts_result = Unset
    /\ final_plan = Unset
    /\ response = Unset
    /\ started = <<>>

-----------------------------------------------------------------------------
(* allocate_budget called on its own *)

AllocCalls ==
    [fn : {"allocate_budget"},
     total_budget : (-1)..MaxBudget,
     recommended_channels : ChannelLists(MaxChannels),
     previous_results : HistoryInputs]

InitAlloc ==
    /\ PipelineIdle
    /\ call \in AllocCalls
    /\ ret = Unset
    /\ frame = Unset

AllocateBudget ==
    /\ call.fn = "allocate_budget"
    /\ ret = Unset
    /\ ret' = [budget_split |-> allocate_budget(call.total_budget,
                                                call.recommended_channels,
                                                call.previous_results)]
    /\ UNCHANGED <<call, frame, pipe_vars>>

NextAlloc == AllocateBudget

SpecAlloc == InitAlloc /\ [][NextAlloc]_vars

-----------------------------------------------------------------------------
(* step_7_strategy_recommender.py *)

\* line 87
StrategyChainMissing == [error |-> "Strategy generation chain not initialized."]
\* line 141
StrategyFailed == [error |-> "Failed to generate strategy via LangChain",
                   details |-> "exception text"]

\* a negative corrected amount is raised to zero and the split is kept
correct_budget_split_clamped(total_budget, result) ==
    LET split == result.budget_split
        largest_channel == DictMaxKey(split)
        amount == DictGet(split, largest_channel, 0) + total_budget - DictSum(split)
    IN [result EXCEPT !.budget_split =
           DictSet(split, largest_channel, IF amount < 0 THEN 0 ELSE amount)]

\* lines 116-129: the difference goes to the largest raw allocation; if that drives
\* it negative the split is rebuilt equally over recommended_channels.  A missing
\* recommended_channels (KeyError) or an empty one (ZeroDivisionError) is caught
\* by the except clause of line 134.
correct_budget_split(total_budget, result) ==
    LET split == result.budget_split
        budget_diff == total_budget - DictSum(split)
    IN IF budget_diff # 0
       THEN LET largest_channel == DictMaxKey(split)
                adjusted == DictSet(split, largest_channel,
                                    DictGet(split, largest_channel, 0) + budget_diff)
            IN IF DictGet(adjusted, largest_channel, 0) < 0
               THEN IF "recommended_channels" \notin DOMAIN result
                       \/ Len(result.recommended_channels) = 0
                    THEN StrategyFailed
                    ELSE LET num_channels == Len(result.recommended_channels)
                         IN [result EXCEPT !.budget_split =
                                base_split(result.recommended_channels, 1,
                                           total_budget \div num_channels,
                                           total_budget % num_channels, EmptyDict)]
               ELSE [result EXCEPT !.budget_split = adjusted]
       ELSE result

\* lines 81-141.  gen is what strategy_chain.ainvoke did: it raised, or it returned
\* the parsed JSON object gen.value (no schema is enforced on it).
generate_strategy(total_budget, chain_ok, gen) ==
    IF ~chain_ok THEN StrategyChainMissing
    ELSE IF gen.kind = "raises" THEN StrategyFailed
    ELSE IF "budget_split" \in DOMAIN gen.value /\ gen.value.budget_split # <<>>
         THEN correct_budget_split(total_budget, gen.value)
         ELSE gen.value

IsError_with_details(x) == "details" \in DOMAIN x

\* main.py:98 and the like: isinstance(x, dict) and x.get("error")
IsError(x) == "error" \in DOMAIN x

-----------------------------------------------------------------------------
(* generate_strategy called on its own *)

MaxStratChannels == 2   \* longest recommended_channels list the generator returns
MaxRawAmount == 3       \* largest amount in a raw budget_split
MaxStratBudget == 4     \* largest total budget of the request

RawAmounts == 0..MaxRawAmount

\* raw splits of zero, one and two channels
RawSplits ==
    {EmptyDict}
    \cup {<< <<k, v>> >> : k \in ChannelNames, v \in RawAmounts}
    \cup {<< <<k[1], v>>, <<k[2], w>> >> :
            k \in {x \in ChannelNames \X ChannelNames : x[1] # x[2]},
            v \in RawAmounts, w \in RawAmounts}

CampaignAngle == "angle"

\* line 105: the output parser returns whatever JSON the generator wrote; a JSON
\* array is a Python list, which has no keys
JsonArray == [json_array |-> <<FBAds, Pamphlets>>]

\* isinstance(x, dict)
IsDict(x) == "json_array" \notin DOMAIN x

\* the JSON values the generator may return: an object with any key missing, or an
\* array
StrategyObjects(lists, splits) ==
    {[recommended_channels |-> l, budget_split |-> b, campaign_angle |-> CampaignAngle] :
        l \in lists, b \in splits}
    \cup {[budget_split |-> b, campaign_angle |-> CampaignAngle] : b \in splits}
    \cup {[recommended_channels |-> l, campaign_angle |-> CampaignAngle] : l \in lists}
    \cup {JsonArray}

Raises == [kind |-> "raises", value |-> Unset]
Returns(v) == [kind |-> "result", value |-> v]

StrategyCalls ==
    [fn : {"generate_strategy"},
     total_budget : (-1)..MaxStratBudget,
     chain_ok : BOOLEAN,
     gen : {Raises} \cup {Returns(v) :
                v \in StrategyObjects(ChannelLists(MaxStratChannels), RawSplits)}]

InitStrategy ==
    /\ PipelineIdle
    /\ call \in StrategyCalls
    /\ ret = Unset
    /\ frame = Unset

GenerateStrategy ==
    /\ call.fn = "generate_strategy"
    /\ ret = Unset
    /\ ret' = generate_strategy(call.total_budget, call.chain_ok, call.gen)
    /\ UNCHANGED <<call, frame, pipe_vars>>

NextStrategy == GenerateStrategy

SpecStrategy == InitStrategy /\ [][NextStrategy]_vars

-----------------------------------------------------------------------------
(* step_1_input_parser.py *)

\* line 39
DefaultBudget == 5000

\* line 18
AllowedChannelPreferences == {"Online", "Offline", "Both", "AI Recommend"}

\* lines 6-14: the fields that have no default
RequiredFields == {"business_type", "location", "goal_description",
                   "channel_preference", "user_id"}
BudgetFields == {"budget_min", "budget_max", "budget_fixed"}

check_channel_preference_any(v) == TRUE

\* lines 16-21
check_channel_preference(v) == v \in AllowedChannelPreferences

\* line 27: _CampaignInputInternal(**raw_input) accepts the request
Validates(raw_input) ==
    /\ RequiredFields \subseteq DOMAIN raw_input
    /\ check_channel_preference(raw_input.channel_preference)

\* line 28: validated_input.dict(), the optional fields defaulting to None
validated_dict(raw_input) ==
    [k \in RequiredFields \cup BudgetFields |->
        IF k \in DOMAIN raw_input THEN raw_input[k] ELSE None]

resolve_budget_min_first(cleaned_data) ==
    IF ~IsNone(cleaned_data.budget_min) THEN Val(cleaned_data.budget_min)
    ELSE IF ~IsNone(cleaned_data.budget_fixed) THEN Val(cleaned_data.budget_fixed)
         ELSE DefaultBudget

\* lines 31-39
resolve_budget(cleaned_data) ==
    IF ~IsNone(cleaned_data.budget_fixed) THEN Val(cleaned_data.budget_fixed)
    ELSE IF ~IsNone(cleaned_data.budget_min) /\ ~IsNone(cleaned_data.budget_max)
         THEN (Val(cleaned_data.budget_min) + Val(cleaned_data.budget_max)) \div 2
         ELSE IF ~IsNone(cleaned_data.budget_min) THEN Val(cleaned_data.budget_min)
              ELSE DefaultBudget

\* line 53
InputParsingFailed == [raised |-> "ValueError: Input Parsing Failed"]

\* lines 23-53: the cleaned map, or the ValueError raised
parse_input(raw_input) ==
    IF ~Validates(raw_input) THEN InputParsingFailed
    ELSE LET cleaned_data == validated_dict(raw_input)
             with_budget == [k \in DOMAIN cleaned_data \cup {"budget"} |->
                                IF k = "budget" THEN resolve_budget(cleaned_data)
                                ELSE cleaned_data[k]]
         IN [k \in DOMAIN with_budget \ BudgetFields |-> with_budget[k]]

Raised(x) == "raised" \in DOMAIN x

-----------------------------------------------------------------------------
(* parse_input called on its own *)

MaxParseBudget == 4     \* budget fields range over -MaxParseBudget..MaxParseBudget

OptionalBudgets == {None} \cup {Some(v) : v \in (-MaxParseBudget)..MaxParseBudget}

ChannelPreferences == AllowedChannelPreferences \cup {"Hybrid", "online"}

UserIds == {"user123_with_history", "new_user_456"}

Requests(budgets, preferences, users) ==
    [business_type : {"cafe"}, location : {"Pune"},
     goal_description : {"Diwali discount sale"},
     budget_min : budgets, budget_max : budgets, budget_fixed : budgets,
     channel_preference : preferences, user_id : users]

\* a request without its user_id
Incomplete == [business_type |-> "cafe", location |-> "Pune",
               goal_description |-> "Diwali discount sale",
               budget_fixed |-> Some(1), channel_preference |-> "Both"]

ParseCalls ==
    [fn : {"parse_input"},
     raw_input : Requests(OptionalBudgets, ChannelPreferences, {"new_user_456"})
                 \cup {Incomplete}]

InitParse ==
    /\ PipelineIdle
    /\ call \in ParseCalls
    /\ ret = Unset
    /\ frame = Unset

ParseInput ==
    /\ call.fn = "parse_input"
    /\ ret = Unset
    /\ ret' = parse_input(call.raw_input)
    /\ UNCHANGED <<call, frame, pipe_vars>>

NextParse == ParseInput

SpecParse == InitParse /\ [][NextParse]_vars

-----------------------------------------------------------------------------
(* step_2_ner_extractor.py *)

\* the characters of the model's texts, in code point order
CodeOrder == <<"\t", "\n", " ", "%", "&", "-", ".", "/", "0", "1", "2", "3", "4", "5",
               "6", "7", "8", "9", ":">> \o UpperChars \o <<"_">> \o LowerChars

CharCode(c) == CHOOSE i \in 1..Len(CodeOrder) : CodeOrder[i] = c

\* a < b for str
StrLess(a, b) ==
    \E i \in 1..(Len(b)) :
        /\ \A k \in 1..(i - 1) : k <= Len(a) /\ a[k] = b[k]
        /\ \/ i = Len(a) + 1
           \/ i <= Len(a) /\ CharCode(a[i]) < CharCode(b[i])

\* sorted(list(set(texts)))
RECURSIVE Sorted(_)
Sorted(texts) ==
    IF texts = {} THEN <<>>
    ELSE LET least == CHOOSE t \in texts : \A u \in texts \ {t} : StrLess(t, u)
         IN <<least>> \o Sorted(texts \ {least})

\* line 23
EntitiesUnavailable == << <<"error", "spaCy model not available">> >>

\* lines 30-38
EmptyCategories ==
    << <<"locations", <<>> >>, <<"events", <<>> >>, <<"products_services", <<>> >>,
       <<"target_groups", <<>> >>, <<"dates_times", <<>> >>, <<"orgs", <<>> >>,
       <<"misc_keywords", <<>> >> >>

\* lines 51-66: the category of an entity label, "" for a label that is dropped
CategoryOf(label) ==
    IF label \in {"GPE", "LOC"} THEN "locations"
    ELSE IF label = "EVENT" THEN "events"
    ELSE IF label = "PRODUCT" THEN "products_services"
    ELSE IF label \in {"PERSON", "NORP"} THEN "target_groups"
    ELSE IF label \in {"DATE", "TIME"} THEN "dates_times"
    ELSE IF label = "ORG" THEN "orgs"
    ELSE ""

never_processed(text, processed_texts) == FALSE

\* lines 46, 72: text in processed_texts
already_processed(text, processed_texts) == text \in processed_texts

\* lines 43-66
RECURSIVE entity_loop(_, _, _, _)
entity_loop(ents, i, processed_texts, entities_acc) ==
    IF i > Len(ents) THEN [processed_texts |-> processed_texts, entities |-> entities_acc]
    ELSE LET label == ents[i].label
             text == Lower(Strip(ents[i].text))
         IN IF text = <<>> \/ already_processed(text, processed_texts)
            THEN entity_loop(ents, i + 1, processed_texts, entities_acc)
            ELSE entity_loop(ents, i + 1, processed_texts \cup {text},
                             IF CategoryOf(label) = "" THEN entities_acc
                             ELSE DictSet(entities_acc, CategoryOf(label),
                                          Append(DictGet(entities_acc, CategoryOf(label),
                                                         <<>>), text)))

\* line 78
is_offer_term(keyword, token_text) ==
    \/ Contains(keyword, <<"d","i","s","c","o","u","n","t">>)
    \/ Contains(keyword, <<"s","a","l","e">>)
    \/ Contains(keyword, <<"o","f","f","e","r">>)
    \/ Contains(token_text, <<"%">>)

\* lines 70-80
RECURSIVE token_loop(_, _, _, _)
token_loop(tokens, i, processed_texts, entities_acc) ==
    IF i > Len(tokens) THEN entities_acc
    ELSE LET token == tokens[i]
             keyword == Lower(token.lemma)
         IN IF token.pos \in {"NOUN", "PROPN"} /\ ~token.is_stop
               /\ ~already_processed(keyword, processed_texts)
            THEN LET with_keyword ==
                         DictSet(entities_acc, "misc_keywords",
                                 Append(DictGet(entities_acc, "misc_keywords", <<>>),
                                        keyword))
                 IN token_loop(tokens, i + 1, processed_texts \cup {keyword},
                               IF is_offer_term(keyword, token.text)
                               THEN DictSet(with_keyword, "offer_terms",
                                            Append(DictGet(with_keyword, "offer_terms",
                                                           <<>>), token.text))
                               ELSE with_keyword)
            ELSE token_loop(tokens, i + 1, processed_texts, entities_acc)

\* lines 83-84
dedup_sorted(entities_acc) ==
    [k \in 1..Len(entities_acc) |->
        <<entities_acc[k][1],
          Sorted({entities_acc[k][2][j] : j \in 1..Len(entities_acc[k][2])})>>]

is_blank_empty_only(goal_description) == goal_description = <<>>

\* line 25: not goal_description.strip()
is_blank(goal_description) == Strip(goal_description) = <<>>

\* lines 16-87.  doc is what nlp(goal_description) yields: doc.ents and the tokens.
extract_entities(nlp_ok, goal_description, doc) ==
    IF ~nlp_ok THEN EntitiesUnavailable
    ELSE IF is_blank(goal_description) THEN EmptyDict
    ELSE LET after_ents == entity_loop(doc.ents, 1, {}, EmptyCategories)
         IN dedup_sorted(token_loop(doc.tokens, 1, after_ents.processed_texts,
                                    after_ents.entities))

(* extract_entities called on its own *)

MaxEnts == 2      \* most entities in a doc
MaxTokens == 2    \* most tokens in a doc

Ent(label, text) == [label |-> label, text |-> text]
Token(pos, is_stop, lemma, text) ==
    [pos |-> pos, is_stop |-> is_stop, lemma |-> lemma, text |-> text]

PuneText == <<"P","u","n","e">>
SaleText == <<"s","a","l","e">>
DiwaliText == <<"D","i","w","a","l","i">>

\* entities the NLP model may recognise: the same place under two labels and two
\* spellings, a label the code drops, an event
EntChoices ==
    {Ent("GPE", PuneText), Ent("ORG", <<" ">> \o Lower(PuneText) \o <<" ">>),
     Ent("ORG", <<"S","a","l","e">>), Ent("MONEY", <<"S","a","l","e">>),
     Ent("EVENT", DiwaliText)}

\* tokens the NLP model may yield
TokenChoices ==
    {Token("PROPN", FALSE, PuneText, PuneText),
     Token("NOUN", FALSE, SaleText, SaleText),
     Token("NOUN", FALSE, SaleText, <<"S","a","l","e","s">>),
     Token("NOUN", TRUE, <<"o","f","f","e","r">>, <<"o","f","f","e","r">>)}

RECURSIVE SeqsUpTo(_, _)
SeqsUpTo(S, n) ==
    IF n = 0 THEN {<<>>}
    ELSE LET shorter == SeqsUpTo(S, n - 1)
         IN shorter \cup {Append(l, x) : l \in {y \in shorter : Len(y) = n - 1}, x \in S}

EmptyDoc == [ents |-> <<>>, tokens |-> <<>>]
\* "Diwali sale": an event and two tokens
SaleDoc == [ents |-> <<Ent("EVENT", DiwaliText)>>,
            tokens |-> <<Token("PROPN", FALSE, DiwaliText, DiwaliText),
                         Token("NOUN", FALSE, SaleText, SaleText)>>]

BlankGoals == {<<>>, <<" "," ">>, <<" ","\n","\t">>}

NerCalls ==
    [fn : {"extract_entities"}, nlp_ok : BOOLEAN, goal_description : BlankGoals,
     doc : {EmptyDoc}]
    \cup [fn : {"extract_entities"}, nlp_ok : BOOLEAN,
          goal_description : {<<"P","u","n","e"," ","s","a","l","e">>},
          doc : [ents : SeqsUpTo(EntChoices, MaxEnts),
                 tokens : SeqsUpTo(TokenChoices, MaxTokens)]]

InitNer ==
    /\ PipelineIdle
    /\ call \in NerCalls
    /\ ret = Unset
    /\ frame = Unset

ExtractEntities ==
    /\ call.fn = "extract_entities"
    /\ ret = Unset
    /\ ret' = [entities |-> extract_entities(call.nlp_ok, call.goal_description,
                                             call.doc)]
    /\ UNCHANGED <<call, frame, pipe_vars>>

NextNer == ExtractEntities

SpecNer == InitNer /\ [][NextNer]_vars

-----------------------------------------------------------------------------
(* step_5_context_searcher.py *)

\* line 114
EventsSentinel == <<"N","o"," ","s","p","e","c","i","f","i","c"," ","e","v","e","n","t","s"," ","f","o","u","n","d"," ","o","r"," ","s","e","a","r","c","h","/","L","L","M"," ","f","a","i","l","e","d",".">>
\* line 129
EventsChainUnavailable == <<"L","L","M"," ","c","h","a","i","n"," ","u","n","a","v","a","i","l","a","b","l","e"," ","f","o","r"," ","e","v","e","n","t"," ","s","u","m","m","a","r","y",".">>
\* line 126, for an exception of class Exception
EventsSummaryError == <<"E","r","r","o","r"," ","s","u","m","m","a","r","i","z","i","n","g"," ","e","v","e","n","t"," ","s","e","a","r","c","h"," ","r","e","s","u","l","t","s",":"," ","E","x","c","e","p","t","i","o","n">>
\* line 134
CompetitorsSentinel == <<"C","o","u","l","d"," ","n","o","t"," ","d","e","t","e","r","m","i","n","e"," ","c","o","m","p","e","t","i","t","o","r"," ","t","y","p","e","s"," ","o","r"," ","s","e","a","r","c","h","/","L","L","M"," ","f","a","i","l","e","d",".">>
\* line 149
CompetitorsChainUnavailable == <<"L","L","M"," ","c","h","a","i","n"," ","u","n","a","v","a","i","l","a","b","l","e"," ","f","o","r"," ","c","o","m","p","e","t","i","t","o","r"," ","s","u","m","m","a","r","y",".">>
\* line 146
CompetitorsSummaryError == <<"E","r","r","o","r"," ","s","u","m","m","a","r","i","z","i","n","g"," ","c","o","m","p","e","t","i","t","o","r"," ","s","e","a","r","c","h"," ","r","e","s","u","l","t","s",":"," ","E","x","c","e","p","t","i","o","n">>
\* line 55
SearchNotConfigured == <<"S","e","a","r","c","h"," ","A","P","I"," ","k","e","y"," ","n","o","t"," ","c","o","n","f","i","g","u","r","e","d",".">>
\* line 73
NoSnippetsFound == <<"N","o"," ","r","e","l","e","v","a","n","t"," ","s","e","a","r","c","h"," ","r","e","s","u","l","t"," ","s","n","i","p","p","e","t","s"," ","f","o","u","n","d",".">>
\* line 77, for status 403
SearchStatusFailed == <<"S","e","a","r","c","h"," ","f","a","i","l","e","d"," ","w","i","t","h"," ","s","t","a","t","u","s",":"," ","4","0","3">>
\* line 80
SearchRequestFailed == <<"S","e","a","r","c","h"," ","r","e","q","u","e","s","t"," ","f","a","i","l","e","d",".">>
\* line 83
SearchUnexpected == <<"U","n","e","x","p","e","c","t","e","d"," ","e","r","r","o","r"," ","d","u","r","i","n","g"," ","s","e","a","r","c","h",".">>
\* line 74: snippets the search returned
FestivalSnippets == <<"G","a","n","e","s","h"," ","f","e","s","t","i","v","a","l"," ","i","n"," ","P","u","n","e">>
\* line 74: snippets holding the word "Founded"
FoundedSnippets == <<"F","o","u","n","d","e","d"," ","i","n"," ","1","9","9","8",","," ","a"," ","b","a","k","e","r","y">>
\* lines 119, 139: what the summarization call returns, here with blanks around
PaddedSummary == <<" ","G","a","n","e","s","h"," ","f","e","s","t","i","v","a","l",".","\n">>
\* lines 119, 139
PlainSummary == <<"b","a","k","e","r","i","e","s">>

\* lines 51-83: what one search returns.  Every exception is caught inside, so the
\* gather of line 100 never takes the except clause of line 104.
search_google(serper_key) ==
    IF ~serper_key THEN {SearchNotConfigured}
    ELSE {NoSnippetsFound, SearchStatusFailed, SearchRequestFailed, SearchUnexpected,
          FestivalSnippets, FoundedSnippets}

\* lines 115, 135
IndicatorWords == {<<"f","a","i","l","e","d">>,
                   <<"c","o","n","f","i","g","u","r","e","d">>,
                   <<"f","o","u","n","d">>}

snippets_usable_cased(snippets) ==
    snippets # <<>> /\ \A w \in IndicatorWords : ~Contains(snippets, w)

\* lines 115, 135: the snippets are a non-empty text holding no indicator word
snippets_usable(snippets) ==
    snippets # <<>> /\ \A w \in IndicatorWords : ~Contains(Lower(snippets), w)

\* what search_chain.ainvoke did
NotInvoked == [kind |-> "none", value |-> Unset]
SummaryLlmOutcomes == {Raises, Returns(PaddedSummary), Returns(PlainSummary)}

\* lines 115, 135: is the summarization call made
invokes_chain(chain_ok, snippets) == chain_ok /\ snippets_usable(snippets)

\* lines 114-131 and 134-151: one summary
summarize(chain_ok, snippets, llm, sentinel, unavailable, error_text) ==
    IF invokes_chain(chain_ok, snippets)
    THEN IF llm.kind = "raises" THEN error_text ELSE llm.value
    ELSE IF ~chain_ok THEN unavailable
         ELSE sentinel

\* lines 154-157
final_context(event_summary, competitor_summary) ==
    [local_events_summary |-> Strip(event_summary),
     competitor_types_summary |-> Strip(competitor_summary)]

\* lines 87-159, for given outcomes of the two searches and the two summarizations
search_local_context(chain_ok, event_snippets, competitor_snippets, e_llm, c_llm) ==
    final_context(summarize(chain_ok, event_snippets, e_llm, EventsSentinel,
                            EventsChainUnavailable, EventsSummaryError),
                  summarize(chain_ok, competitor_snippets, c_llm,
                            CompetitorsSentinel, CompetitorsChainUnavailable,
                            CompetitorsSummaryError))

\* what run_pipeline may get from step 5
ContextOutcomes(c) ==
    {search_local_context(c.google_key, es, cs, el, cl) :
        es \in search_google(c.serper_key), cs \in search_google(c.serper_key),
        el \in {Raises, Returns(PaddedSummary)},
        cl \in {Raises, Returns(PaddedSummary)}}

-----------------------------------------------------------------------------
(* search_local_context called on its own, one step at a time *)

ContextCalls ==
    [fn : {"search_local_context"}, chain_ok : BOOLEAN, serper_key : BOOLEAN]

\* the locals of search_local_context before line 98
ContextFrame ==
    [pc |-> "gather", searched |-> {},
     event_snippets |-> <<>>, competitor_snippets |-> <<>>,
     event_summary |-> <<>>, competitor_summary |-> <<>>,
     event_llm |-> NotInvoked, competitor_llm |-> NotInvoked]

InitContext ==
    /\ PipelineIdle
    /\ call \in ContextCalls
    /\ ret = Unset
    /\ frame = ContextFrame

\* lines 100-103: the two searches run concurrently, gather returns after both
SearchEvents ==
    /\ call.fn = "search_local_context"
    /\ frame.pc = "gather"
    /\ "events" \notin frame.searched
    /\ \E snippets \in search_google(call.serper_key) :
          frame' = [frame EXCEPT !.event_snippets = snippets,
                                 !.searched = @ \cup {"events"},
                                 !.pc = IF "competitors" \in frame.searched
                                        THEN "event_summary" ELSE "gather"]
    /\ UNCHANGED <<call, ret, pipe_vars>>

SearchCompetitors ==
    /\ call.fn = "search_local_context"
    /\ frame.pc = "gather"
    /\ "competitors" \notin frame.searched
    /\ \E snippets \in search_google(call.serper_key) :
          frame' = [frame EXCEPT !.competitor_snippets = snippets,
                                 !.searched = @ \cup {"competitors"},
                                 !.pc = IF "events" \in frame.searched
                                        THEN "event_summary" ELSE "gather"]
    /\ UNCHANGED <<call, ret, pipe_vars>>

SummarizeCompetitorsIfEventsOk ==
    /\ call.fn = "search_local_context"
    /\ frame.pc = "competitor_summary"
    /\ \E llm \in (IF invokes_chain(call.chain_ok, frame.competitor_snippets)
                      /\ frame.event_llm.kind = "result"
                   THEN SummaryLlmOutcomes ELSE {NotInvoked}) :
          frame' = [frame EXCEPT
                       !.competitor_llm = llm,
                       !.competitor_summary =
                           IF llm = NotInvoked /\ call.chain_ok THEN CompetitorsSentinel
                           ELSE summarize(call.chain_ok, frame.competitor_snippets, llm,
                                          CompetitorsSentinel,
                                          CompetitorsChainUnavailable,
                                          CompetitorsSummaryError),
                       !.pc = "return"]
    /\ UNCHANGED <<call, ret, pipe_vars>>

\* lines 113-131
SummarizeEvents ==
    /\ call.fn = "search_local_context"
    /\ frame.pc = "event_summary"
    /\ \E llm \in (IF invokes_chain(call.chain_ok, frame.event_snippets)
                   THEN SummaryLlmOutcomes ELSE {NotInvoked}) :
          frame' = [frame EXCEPT
                       !.event_llm = llm,
                       !.event_summary =
                           summarize(call.chain_ok, frame.event_snippets, llm,
                                     EventsSentinel, EventsChainUnavailable,
                                     EventsSummaryError),
                       !.pc = "competitor_summary"]
    /\ UNCHANGED <<call, ret, pipe_vars>>

\* lines 133-151
SummarizeCompetitors ==
    /\ call.fn = "search_local_context"
    /\ frame.pc = "competitor_summary"
    /\ \E llm \in (IF invokes_chain(call.chain_ok, frame.competitor_snippets)
                   THEN SummaryLlmOutcomes ELSE {NotInvoked}) :
          frame' = [frame EXCEPT
                       !.competitor_llm = llm,
                       !.competitor_summary =
                           summarize(call.chain_ok, frame.competitor_snippets, llm,
                                     CompetitorsSentinel, CompetitorsChainUnavailable,
                                     CompetitorsSummaryError),
                       !.pc = "return"]
    /\ UNCHANGED <<call, ret, pipe_vars>>

\* lines 153-159
ReturnContext ==
    /\ call.fn = "search_local_context"
    /\ frame.pc = "return"
    /\ ret' = final_context(frame.event_summary, frame.competitor_summary)
    /\ frame' = [frame EXCEPT !.pc = "done"]
    /\ UNCHANGED <<call, pipe_vars>>

NextContext ==
    \/ SearchEvents
    \/ SearchCompetitors
    \/ SummarizeEvents
    \/ SummarizeCompetitors
    \/ ReturnContext

SpecContext == InitContext /\ [][NextContext]_vars

-----------------------------------------------------------------------------
(* step_2_ner_extractor.py, step_3_db_retriever.py, step_4_trend_analyzer.py,  *)
(* step_5_context_searcher.py, step_6_persona_generator.py,                    *)
(* step_10_visual_prompter.py: what run_pipeline sees of them                  *)

\* what run_pipeline may get from step 2 for the goal of the request
EntityOutcomes(c) ==
    {extract_entities(c.nlp, <<"D","i","w","a","l","i"," ","s","a","l","e">>, doc) :
        doc \in {EmptyDoc, SaleDoc}}

\* entities.get(key, [])
EntitiesGet(e, key) == DictGet(e, key, <<>>)

\* a stored history that names Pamphlets as the best channel
get_previous_results_highest(user_id) == Results(PamphletsHighest)

get_previous_results_no_history(user_id) == Results(NoHistorySummary)

\* step_3 lines 14-28
get_previous_results(user_id) ==
    IF user_id = "user123_with_history" THEN Results(MockHistorySummary)
    ELSE Results(NoHistorySummary)

\* step_4 lines 49-81: what one search of the trend analyzer returns
search_google_trends_helper(serper_key) ==
    IF ~serper_key THEN {SearchNotConfigured}
    ELSE {NoSnippetsFound, SearchRequestFailed, FestivalSnippets}

\* step_4 line 124: what trend_summary_chain.invoke did
TrendLlmOutcomes == {Raises, Returns("trend summary")}

\* step_4 line 108
all_snippets_of(timing_snippets, interest_snippets) ==
    Strip(timing_snippets \o <<"\n">> \o interest_snippets)

\* step_4 lines 110-116: is trend_summary_chain invoked
invokes_trend_chain(chain_ok, all_snippets) == chain_ok /\ all_snippets # <<>>

\* step_4 lines 110-129: the timing_recommendation text
timing_recommendation_of(chain_ok, all_snippets, llm) ==
    IF all_snippets = <<>> THEN "No valid search results found."
    ELSE IF chain_ok
         THEN IF llm.kind = "raises" THEN "Error summarizing trend search results."
              ELSE llm.value
         ELSE "LLM not available for trend summary."

\* step_4 lines 99-103: the locals of analyze_trends_via_search inside gather
TrendFrame ==
    [step |-> "analyze_trends", in_flight |-> {"search:timing", "search:interest"},
     timing_snippets |-> <<>>, interest_snippets |-> <<>>]

\* step_5 lines 98-104: the locals of search_local_context inside gather
GatherFrame(first_event) ==
    [step |-> "search_local_context",
     in_flight |-> {"search:events", "search:competitors"},
     first_event |-> first_event,
     event_snippets |-> <<>>, competitor_snippets |-> <<>>]

\* the generation calls of steps 6, 7, 9 and 10 (step_6 line 101, step_7 line 105,
\* step_9 line 108, step_10 line 81)
\* the persona call is made a second time
PersonaCalls_twice(c) == IF c.google_key THEN <<"llm:persona", "llm:persona">> ELSE <<>>

PersonaCalls(c) == IF c.google_key THEN <<"llm:persona">> ELSE <<>>
StrategyCalls_of(c) == IF c.google_key THEN <<"llm:strategy">> ELSE <<>>
CreativeCalls(c, recommended_channels) ==
    IF c.google_key /\ recommended_channels # <<>> THEN <<"llm:creative">> ELSE <<>>
VisualCalls(c) == IF c.google_key THEN <<"llm:visual">> ELSE <<>>

\* step_6 lines 85-119
PersonaChainMissing == [error |-> "Persona generation chain not initialized."]
PersonaFailed == [error |-> "Failed to generate persona via LangChain",
                  details |-> "exception text"]
Persona == [segment_name |-> "segment"]
PersonaOutcomes(c) == IF ~c.google_key THEN {PersonaChainMissing}
                      ELSE {PersonaFailed, Persona}

\* step_10 lines 68-92
VisualChainMissing == [error |-> "Visual prompt generation chain not initialized."]
VisualFailed == [error |-> "Failed to generate visual prompts via LangChain",
                 details |-> "exception text"]
TwoPrompts == [visual_prompts |-> <<"prompt 1", "prompt 2">>]
NoPrompts == [visual_prompts |-> <<>>]
VisualOutcomes(c) == IF ~c.google_key THEN {VisualChainMissing}
                     ELSE {VisualFailed, TwoPrompts, NoPrompts}

-----------------------------------------------------------------------------
(* step_9_creative_writer.py *)

CopySuffix == <<"_","c","o","p","y">>

\* line 37
key_name(channel) ==
    Replace(Replace(Replace(Replace(Lower(channel), " ", <<"_">>), "-", <<"_">>),
                    "&", <<"a","n","d">>), ".", <<>>) \o CopySuffix

\* the copy the generator writes for a channel
CopyFor(channel) == <<"c","o","p","y",":">> \o channel

\* lines 36-42 and 108: the object the generator returns when it follows the
\* per-request schema, one field per channel under its key_name
RECURSIVE channel_copy(_, _, _)
channel_copy(channels, i, acc) ==
    IF i > Len(channels) THEN acc
    ELSE channel_copy(channels, i + 1,
                      DictSet(acc, key_name(channels[i]), CopyFor(channels[i])))

CreativeLlmMissing == [error |-> "LLM not initialized for creative writing."]
CreativeFailed == [error |-> "Failed to generate creative content via LangChain",
                   details |-> "exception text"]

\* lines 78-119
CreativeOutcomes(c, recommended_channels) ==
    IF ~c.google_key THEN {CreativeLlmMissing}
    ELSE IF recommended_channels = <<>> THEN {[channel_copy |-> EmptyDict]}
         ELSE {CreativeFailed,
               [channel_copy |-> channel_copy(recommended_channels, 1, EmptyDict)]}

-----------------------------------------------------------------------------
(* main.py: run_pipeline *)

MaxPlanChannels == 2    \* longest recommended_channels list inside run_pipeline

NA == <<"N","/","A">>
AdsWord == <<"A","d","s">>
OnlineWord == <<"O","n","l","i","n","e">>

\* line 155
channel_copy_key(channel) ==
    Replace(Replace(Lower(channel), " ", <<"_">>), "-", <<"_">>) \o CopySuffix

\* line 108: campaign_strategy.get('recommended_channels', [])
recommended_channels_of(strategy) ==
    IF "recommended_channels" \in DOMAIN strategy THEN strategy.recommended_channels
    ELSE <<>>

\* lines 121, 144: campaign_strategy.get('campaign_angle', default)
campaign_angle_of(strategy, default) ==
    IF "campaign_angle" \in DOMAIN strategy THEN strategy.campaign_angle ELSE default

\* lines 154-172: the entry of one channel
channel_rec(channel, budget_split, creative, visual_prompts) ==
    [channel_name |-> channel,
     allocated_budget |-> DictGet(budget_split, channel, 0),
     suggested_copy |-> DictGet(creative.channel_copy, channel_copy_key(channel), NA),
     visual_prompt |-> IF visual_prompts # <<>> THEN visual_prompts[1]
                       ELSE "No visual prompt generated.",
     tracking_type |-> IF Contains(channel, AdsWord) \/ Contains(channel, OnlineWord)
                       THEN "link" ELSE "qr_code"]

\* line 116: budget_allocation_result.get("budget_split", {})
plan_budget_split(allocation) == allocation.budget_split

\* lines 142-172
build_final_plan(strategy, persona, trend, context, prev, budget_split, creative, visual) ==
    LET recommended_channels == recommended_channels_of(strategy)
        visual_prompts == IF "visual_prompts" \in DOMAIN visual THEN visual.visual_prompts
                          ELSE <<>>
    IN [campaign_overview |->
            [suggested_theme_name |-> campaign_angle_of(strategy, "Generated Campaign"),
             strategic_angle |-> campaign_angle_of(strategy, "N/A"),
             primary_target_audience |-> persona,
             timing_recommendation |-> trend.timing_recommendation,
             competitor_note |-> context.competitor_types_summary],
        channel_recommendations |->
            [i \in 1..Len(recommended_channels) |->
                channel_rec(recommended_channels[i], budget_split, creative, visual_prompts)],
        feedback_loop_note |-> prev.previous_campaign_summary]

Fail_unprocessable(detail) ==
    /\ response' = [status |-> 422, detail |-> detail]
    /\ pc' = "done"

\* lines 192-200: every raise inside the try block ends as an HTTPException 500
Fail(detail) ==
    /\ response' = [status |-> 500, detail |-> detail]
    /\ pc' = "done"

\* the process-wide collaborators: all available, or one of them missing
Configs == {[nlp |-> TRUE, serper_key |-> TRUE, google_key |-> TRUE],
            [nlp |-> FALSE, serper_key |-> TRUE, google_key |-> TRUE],
            [nlp |-> TRUE, serper_key |-> FALSE, google_key |-> TRUE],
            [nlp |-> TRUE, serper_key |-> TRUE, google_key |-> FALSE]}

\* the requests run_pipeline is given: every channel preference, every shape of budget
PipelineRequests ==
    Requests({None}, ChannelPreferences, {"new_user_456"})
    \cup [business_type : {"cafe"}, location : {"Pune"},
          goal_description : {"Diwali discount sale"},
          budget_min : {None}, budget_max : {None},
          budget_fixed : {Some(6), Some(0), Some(-1)},
          channel_preference : {"Both"}, user_id : UserIds]
    \cup [business_type : {"cafe"}, location : {"Pune"},
          goal_description : {"Diwali discount sale"},
          budget_min : {Some(1)}, budget_max : {Some(4)},
          budget_fixed : {None},
          channel_preference : {"Both"}, user_id : {"user123_with_history"}]

\* the raw splits the generator returns inside run_pipeline
PipelineRawSplits == {<< <<FBAds, 1>> >>}

Init ==
    /\ pc = "parse_input"
    /\ cfg \in Configs
    /\ raw_input_dict \in PipelineRequests
    /\ cleaned_input = Unset
    /\ entities = Unset
    /\ previous_results = Unset
    /\ trend_data = Unset
    /\ local_context = Unset
    /\ audience_persona = Unset
    /\ campaign_strategy = Unset
    /\ budget_allocation_result = Unset
    /\ creative_content = Unset
    /\ visual_prompts_result = Unset
    /\ final_plan = Unset
    /\ response = Unset
    /\ started = <<>>
    /\ call = Unset
    /\ ret = Unset
    /\ frame = Unset

\* lines 66-68
Step1ParseInput ==
    /\ pc = "parse_input"
    /\ started' = Append(started, "parse_input")
    /\ LET r == parse_input(raw_input_dict)
       IN IF Raised(r)
          THEN /\ Fail("Input Parsing Failed")
               /\ UNCHANGED cleaned_input
          ELSE /\ cleaned_input' = r
               /\ pc' = "extract_entities"
               /\ UNCHANGED response
    /\ UNCHANGED <<cfg, raw_input_dict, entities, previous_results, trend_data,
                   local_context, audience_persona, campaign_strategy,
                   budget_allocation_result, creative_content, visual_prompts_result,
                   final_plan, call, ret, frame>>

\* lines 70-72
Step2ExtractEntities ==
    /\ pc = "extract_entities"
    /\ started' = Append(started, "extract_entities")
    /\ entities' \in EntityOutcomes(cfg)
    /\ pc' = "get_previous_results"
    /\ UNCHANGED <<cfg, raw_input_dict, cleaned_input, previous_results, trend_data,
                   local_context, audience_persona, campaign_strategy,
                   budget_allocation_result, creative_content, visual_prompts_result,
                   final_plan, response, call, ret, frame>>

\* lines 74-76
Step3GetPreviousResults ==
    /\ pc = "get_previous_results"
    /\ started' = Append(started, "get_previous_results")
    /\ previous_results' = get_previous_results(cleaned_input.user_id)
    /\ pc' = "analyze_trends"
    /\ UNCHANGED <<cfg, raw_input_dict, cleaned_input, entities, trend_data,
                   local_context, audience_persona, campaign_strategy,
                   budget_allocation_result, creative_content, visual_prompts_result,
                   final_plan, response, call, ret, frame>>

\* lines 78-80 and step_4 lines 89-103: the step starts; without keywords it
\* returns at once, otherwise both searches are started together
Step4AnalyzeTrends ==
    /\ pc = "analyze_trends"
    /\ LET trend_keywords == EntitiesGet(entities, "products_services")
                             \o EntitiesGet(entities, "misc_keywords")
       IN IF trend_keywords = <<>>
          THEN /\ started' = Append(started, "analyze_trends")
               /\ trend_data' = [timing_recommendation |-> "No keywords provided.",
                                 related_queries |-> <<>>]
               /\ pc' = "search_local_context"
               /\ UNCHANGED frame
          ELSE /\ started' = Append(started, "analyze_trends")
                                \o <<"search:timing", "search:interest">>
               /\ frame' = TrendFrame
               /\ pc' = "analyze_trends:gather"
               /\ UNCHANGED trend_data
    /\ UNCHANGED local_context
    /\ UNCHANGED <<cfg, raw_input_dict, cleaned_input, entities, previous_results,
                   audience_persona, campaign_strategy,
                   budget_allocation_result, creative_content, visual_prompts_result,
                   final_plan, response, call, ret>>

\* step_4 lines 99-103: one of the two searches returns
Step4SearchReturns ==
    /\ pc = "analyze_trends:gather"
    /\ \E q \in frame.in_flight, s \in search_google_trends_helper(cfg.serper_key) :
          frame' = [frame EXCEPT
                       !.in_flight = @ \ {q},
                       !.timing_snippets = IF q = "search:timing" THEN s ELSE @,
                       !.interest_snippets = IF q = "search:interest" THEN s ELSE @]
    /\ UNCHANGED <<pc, started, trend_data, local_context>>
    /\ UNCHANGED <<cfg, raw_input_dict, cleaned_input, entities, previous_results,
                   audience_persona, campaign_strategy,
                   budget_allocation_result, creative_content, visual_prompts_result,
                   final_plan, response, call, ret>>

\* step_4 lines 108-135 and line 80: both searches are back, the summary is made
\* and the step returns
Step4SummarizeTrends ==
    /\ pc = "analyze_trends:gather"
    /\ frame.in_flight = {}
    /\ LET all_snippets == all_snippets_of(frame.timing_snippets, frame.interest_snippets)
       IN /\ started' = IF invokes_trend_chain(cfg.google_key, all_snippets)
                        THEN Append(started, "llm:trend_summary") ELSE started
          /\ \E llm \in TrendLlmOutcomes :
                trend_data' =
                    [timing_recommendation |->
                         timing_recommendation_of(cfg.google_key, all_snippets, llm),
                     related_queries |-> <<>>]
    /\ frame' = Unset
    /\ pc' = "search_local_context"
    /\ UNCHANGED local_context
    /\ UNCHANGED <<cfg, raw_input_dict, cleaned_input, entities, previous_results,
                   audience_persona, campaign_strategy,
                   budget_allocation_result, creative_content, visual_prompts_result,
                   final_plan, response, call, ret>>

\* the step does not wait for the trend analyzer's searches
Step5SearchLocalContextEarly ==
    /\ pc \in {"search_local_context", "analyze_trends:gather"}
    /\ started' = Append(started, "search_local_context")
                     \o <<"search:events", "search:competitors">>
    /\ LET events_list == EntitiesGet(entities, "events")
       IN frame' = GatherFrame(IF events_list # <<>> THEN <<events_list[1]>> ELSE None)
    /\ pc' = "search_local_context:gather"
    /\ UNCHANGED <<trend_data, local_context>>
    /\ UNCHANGED <<cfg, raw_input_dict, cleaned_input, entities, previous_results,
                   audience_persona, campaign_strategy,
                   budget_allocation_result, creative_content, visual_prompts_result,
                   final_plan, response, call, ret>>

\* lines 83-90 and step_5 lines 87-104: the step starts both searches together
Step5SearchLocalContext ==
    /\ pc = "search_local_context"
    /\ started' = Append(started, "search_local_context")
                     \o <<"search:events", "search:competitors">>
    /\ LET events_list == EntitiesGet(entities, "events")
       IN frame' = GatherFrame(IF events_list # <<>> THEN <<events_list[1]>> ELSE None)
    /\ pc' = "search_local_context:gather"
    /\ UNCHANGED <<trend_data, local_context>>
    /\ UNCHANGED <<cfg, raw_input_dict, cleaned_input, entities, previous_results,
                   audience_persona, campaign_strategy,
                   budget_allocation_result, creative_content, visual_prompts_result,
                   final_plan, response, call, ret>>

\* step_5 lines 98-104: one of the two searches returns
Step5SearchReturns ==
    /\ pc = "search_local_context:gather"
    /\ \E q \in frame.in_flight, s \in search_google(cfg.serper_key) :
          frame' = [frame EXCEPT
                       !.in_flight = @ \ {q},
                       !.event_snippets = IF q = "search:events" THEN s ELSE @,
                       !.competitor_snippets = IF q = "search:competitors" THEN s ELSE @]
    /\ UNCHANGED <<pc, started, trend_data, local_context>>
    /\ UNCHANGED <<cfg, raw_input_dict, cleaned_input, entities, previous_results,
                   audience_persona, campaign_strategy,
                   budget_allocation_result, creative_content, visual_prompts_result,
                   final_plan, response, call, ret>>

\* step_5 lines 110-159 and line 90: both searches are back, the two summaries
\* are made one after the other and the step returns
Step5SummarizeContext ==
    /\ pc = "search_local_context:gather"
    /\ frame.in_flight = {}
    /\ started' = started
          \o (IF invokes_chain(cfg.google_key, frame.event_snippets)
              THEN <<"llm:event_summary">> ELSE <<>>)
          \o (IF invokes_chain(cfg.google_key, frame.competitor_snippets)
              THEN <<"llm:competitor_summary">> ELSE <<>>)
    /\ \E el \in {Raises, Returns(PaddedSummary)}, cl \in {Raises, Returns(PaddedSummary)} :
          local_context' = search_local_context(cfg.google_key, frame.event_snippets,
                                                frame.competitor_snippets, el, cl)
    /\ frame' = Unset
    /\ pc' = "generate_persona"
    /\ UNCHANGED trend_data
    /\ UNCHANGED <<cfg, raw_input_dict, cleaned_input, entities, previous_results,
                   audience_persona, campaign_strategy,
                   budget_allocation_result, creative_content, visual_prompts_result,
                   final_plan, response, call, ret>>

\* lines 93-98
Step6GeneratePersona ==
    /\ pc = "generate_persona"
    /\ started' = Append(started, "generate_persona") \o PersonaCalls(cfg)
    /\ audience_persona' \in PersonaOutcomes(cfg)
    /\ IF IsError(audience_persona')
       THEN Fail("Persona Generation Failed")
       ELSE pc' = "generate_strategy" /\ UNCHANGED response
    /\ UNCHANGED <<cfg, raw_input_dict, cleaned_input, entities, previous_results,
                   trend_data, local_context, campaign_strategy,
                   budget_allocation_result, creative_content, visual_prompts_result,
                   final_plan, call, ret, frame>>

\* lines 100-105
Step7GenerateStrategy ==
    /\ pc = "generate_strategy"
    /\ started' = Append(started, "generate_strategy") \o StrategyCalls_of(cfg)
    /\ \E gen \in {Raises} \cup {Returns(v) :
                      v \in StrategyObjects(ChannelLists(MaxPlanChannels), PipelineRawSplits)} :
          campaign_strategy' = generate_strategy(cleaned_input.budget, cfg.google_key, gen)
    /\ IF IsError(campaign_strategy')
       THEN Fail("Strategy Generation Failed")
       ELSE pc' = "allocate_budget" /\ UNCHANGED response
    /\ UNCHANGED <<cfg, raw_input_dict, cleaned_input, entities, previous_results,
                   trend_data, local_context, audience_persona,
                   budget_allocation_result, creative_content, visual_prompts_result,
                   final_plan, call, ret, frame>>

\* the plan's budgets taken from the strategy's corrected split instead
Step8UseStrategySplit ==
    /\ pc = "allocate_budget"
    /\ started' = Append(started, "allocate_budget")
    /\ IF ~IsDict(campaign_strategy)
       THEN /\ Fail("An internal error occurred: AttributeError")
            /\ UNCHANGED budget_allocation_result
       ELSE /\ budget_allocation_result' =
                  [budget_split |-> IF "budget_split" \in DOMAIN campaign_strategy
                                    THEN campaign_strategy.budget_split ELSE EmptyDict]
            /\ pc' = "generate_creative"
            /\ UNCHANGED response
    /\ UNCHANGED <<cfg, raw_input_dict, cleaned_input, entities, previous_results,
                   trend_data, local_context, audience_persona, campaign_strategy,
                   creative_content, visual_prompts_result, final_plan, call, ret, frame>>

\* lines 107-117; campaign_strategy.get on a value that is not a dict raises
\* AttributeError, which the clause of line 197 reports
Step8AllocateBudget ==
    /\ pc = "allocate_budget"
    /\ started' = Append(started, "allocate_budget")
    /\ IF ~IsDict(campaign_strategy)
       THEN /\ Fail("An internal error occurred: AttributeError")
            /\ UNCHANGED budget_allocation_result
       ELSE /\ budget_allocation_result' =
                  [budget_split |-> allocate_budget(cleaned_input.budget,
                                                    recommended_channels_of(campaign_strategy),
                                                    previous_results)]
            /\ pc' = "generate_creative"
            /\ UNCHANGED response
    /\ UNCHANGED <<cfg, raw_input_dict, cleaned_input, entities, previous_results,
                   trend_data, local_context, audience_persona, campaign_strategy,
                   creative_content, visual_prompts_result, final_plan, call, ret, frame>>

\* lines 119-126
Step9GenerateCreative ==
    /\ pc = "generate_creative"
    /\ started' = Append(started, "generate_creative")
                     \o CreativeCalls(cfg, recommended_channels_of(campaign_strategy))
    /\ creative_content' \in
          CreativeOutcomes(cfg, recommended_channels_of(campaign_strategy))
    /\ IF IsError(creative_content')
       THEN Fail("Creative Generation Failed")
       ELSE pc' = "generate_visual_prompts" /\ UNCHANGED response
    /\ UNCHANGED <<cfg, raw_input_dict, cleaned_input, entities, previous_results,
                   trend_data, local_context, audience_persona, campaign_strategy,
                   budget_allocation_result, visual_prompts_result, final_plan,
                   call, ret, frame>>

\* lines 128-137
Step10GenerateVisualPrompts ==
    /\ pc = "generate_visual_prompts"
    /\ started' = Append(started, "generate_visual_prompts") \o VisualCalls(cfg)
    /\ visual_prompts_result' \in VisualOutcomes(cfg)
    /\ IF IsError(visual_prompts_result')
       THEN Fail("Visual Prompt Generation Failed")
       ELSE pc' = "aggregate" /\ UNCHANGED response
    /\ UNCHANGED <<cfg, raw_input_dict, cleaned_input, entities, previous_results,
                   trend_data, local_context, audience_persona, campaign_strategy,
                   budget_allocation_result, creative_content, final_plan,
                   call, ret, frame>>

\* lines 139-190: the plan is assembled, validated against CampaignPlan and returned
Step11Aggregate ==
    /\ pc = "aggregate"
    /\ started' = Append(started, "aggregate")
    /\ final_plan' = build_final_plan(campaign_strategy, audience_persona, trend_data,
                                      local_context, previous_results,
                                      plan_budget_split(budget_allocation_result),
                                      creative_content, visual_prompts_result)
    /\ response' = [status |-> 200, plan |-> final_plan']
    /\ pc' = "done"
    /\ UNCHANGED <<cfg, raw_input_dict, cleaned_input, entities, previous_results,
                   trend_data, local_context, audience_persona, campaign_strategy,
                   budget_allocation_result, creative_content, visual_prompts_result,
                   call, ret, frame>>

Next ==
    \/ Step1ParseInput
    \/ Step2ExtractEntities
    \/ Step3GetPreviousResults
    \/ Step4AnalyzeTrends
    \/ Step4SearchReturns
    \/ Step4SummarizeTrends
    \/ Step5SearchLocalContext
    \/ Step5SearchReturns
    \/ Step5SummarizeContext
    \/ Step6GeneratePersona
    \/ Step7GenerateStrategy
    \/ Step8AllocateBudget
    \/ Step9GenerateCreative
    \/ Step10GenerateVisualPrompts
    \/ Step11Aggregate

Spec == Init /\ [][Next]_vars

-----------------------------------------------------------------------------
(* Properties *)

Returned == ret # Unset
PlanReturned == "plan" \in DOMAIN response
Failed == "status" \in DOMAIN response /\ response.status = 500
ErrorObject(x) == "error" \in DOMAIN x
Ran(step) == \E i \in 1..Len(started) : started[i] = step
NonNegative(d) == \A i \in 1..Len(d) : d[i][2] >= 0

RECURSIVE SumAllocated(_)
SumAllocated(recs) ==
    IF recs = <<>> THEN 0 ELSE recs[1].allocated_budget + SumAllocated(Tail(recs))

\* C1: for a non-empty recommended_channels list and a total_budget >= 0, the
\* budget_split allocate_budget returns has no negative value and sums exactly to
\* total_budget, whatever the history summary.
C1_AllocationSumsToBudget ==
    (Returned /\ Len(call.recommended_channels) > 0 /\ call.total_budget >= 0)
    => /\ NonNegative(ret.budget_split)
       /\ DictSum(ret.budget_split) = call.total_budget

\* C1 witness: three distinct channels, a high-ROI channel found in the history, and
\* a boost that moved budget away from the base split.
C1_Witness ==
    /\ Returned
    /\ Len(call.recommended_channels) = 3
    /\ Cardinality({call.recommended_channels[i] : i \in 1..3}) = 3
    /\ ~IsNone(high_roi_channel(call.recommended_channels, call.previous_results))
    /\ ret.budget_split # base_split(call.recommended_channels, 1,
                                     call.total_budget \div 3, call.total_budget % 3,
                                     EmptyDict)

\* C2: whenever generate_strategy returns a non-error result, the values of its
\* budget_split sum exactly to the total budget, whatever raw split the generator
\* returned (an empty or a missing split included).
C2_StrategySplitSumsToBudget ==
    (Returned /\ ~ErrorObject(ret) /\ call.total_budget >= 0)
    => DictSum(IF "budget_split" \in DOMAIN ret THEN ret.budget_split ELSE EmptyDict)
       = call.total_budget

\* C3: in every returned plan the allocated_budget values of the
\* channel_recommendations sum exactly to the budget parse_input resolved, for any
\* list of recommended channels the strategy step returned.
C3_PlanBudgetsSumToBudget ==
    (PlanReturned /\ cleaned_input.budget >= 0
     /\ response.plan.channel_recommendations # <<>>)
    => SumAllocated(response.plan.channel_recommendations) = cleaned_input.budget

\* C4: when the Persona, Strategy, Creative or Visual step returns an error object,
\* no later step is started and the request ends with a failure, never a plan.
C4_FatalErrorHalts ==
    /\ ErrorObject(audience_persona)
       => /\ ~Ran("generate_strategy") /\ ~Ran("allocate_budget")
          /\ ~Ran("generate_creative") /\ ~Ran("generate_visual_prompts")
          /\ ~Ran("aggregate")
          /\ pc = "done" /\ Failed
    /\ ErrorObject(campaign_strategy)
       => /\ ~Ran("allocate_budget") /\ ~Ran("generate_creative")
          /\ ~Ran("generate_visual_prompts") /\ ~Ran("aggregate")
          /\ pc = "done" /\ Failed
    /\ ErrorObject(creative_content)
       => /\ ~Ran("generate_visual_prompts") /\ ~Ran("aggregate")
          /\ pc = "done" /\ Failed
    /\ ErrorObject(visual_prompts_result)
       => /\ ~Ran("aggregate")
          /\ pc = "done" /\ Failed

\* C4 witness: the creative generation call failed after the budget was allocated,
\* in a process where every collaborator is available.
C4_Witness ==
    /\ creative_content = CreativeFailed
    /\ Ran("allocate_budget")
    /\ pc = "done"

\* C5 as stated: each channel the strategy's corrected budget_split holds is given,
\* in the plan, the amount of that split.
C5_PlanUsesStrategySplit ==
    PlanReturned
    => \A i \in 1..Len(response.plan.channel_recommendations) :
          LET rec == response.plan.channel_recommendations[i]
          IN ("budget_split" \in DOMAIN campaign_strategy
              /\ DictHas(campaign_strategy.budget_split, rec.channel_name))
             => rec.allocated_budget
                = DictGet(campaign_strategy.budget_split, rec.channel_name, 0)

\* C5 amended: the allocated_budget of each channel in the plan is that channel's
\* amount in the split allocate_budget computes from the resolved budget, the
\* recommended channels and the history (0 when that split does not hold it).
C5_PlanUsesAllocatorSplit ==
    PlanReturned
    => \A i \in 1..Len(response.plan.channel_recommendations) :
          LET rec == response.plan.channel_recommendations[i]
          IN rec.allocated_budget
             = DictGet(allocate_budget(cleaned_input.budget,
                                       recommended_channels_of(campaign_strategy),
                                       previous_results),
                       rec.channel_name, 0)

\* C5 witness: a plan of two channels whose amounts are the allocator's equal split
\* while the strategy's corrected split holds the whole budget on one of them.
C5_Witness ==
    /\ PlanReturned
    /\ cleaned_input.budget = 6
    /\ Len(response.plan.channel_recommendations) = 2
    /\ response.plan.channel_recommendations[1].channel_name = FBAds
    /\ response.plan.channel_recommendations[1].allocated_budget = 3
    /\ response.plan.channel_recommendations[2].allocated_budget = 3
    /\ "budget_split" \in DOMAIN campaign_strategy
    /\ campaign_strategy.budget_split = << <<FBAds, 6>> >>

\* C6: for every recommended channel the aggregation's copy-lookup key is the field
\* name the Creative Writer derived, so a copy generated under that field name
\* reaches the plan and is never replaced by "N/A".
C6_CopyKeysAgree ==
    PlanReturned
    => \A i \in 1..Len(response.plan.channel_recommendations) :
          LET rec == response.plan.channel_recommendations[i]
          IN /\ channel_copy_key(rec.channel_name) = key_name(rec.channel_name)
             /\ DictHas(creative_content.channel_copy, key_name(rec.channel_name))
                => rec.suggested_copy
                   = DictGet(creative_content.channel_copy, key_name(rec.channel_name), NA)

\* C7: parse_input resolves the budget by priority: budget_fixed; else the floor of
\* (budget_min + budget_max) / 2 when both are given; else budget_min; else 5000 (also
\* when only budget_max is given).  The map returned holds budget and none of
\* budget_fixed, budget_min, budget_max.
C7_BudgetPriority ==
    (Returned /\ ~Raised(ret))
    => LET r == call.raw_input
       IN /\ "budget" \in DOMAIN ret
          /\ DOMAIN ret \cap BudgetFields = {}
          /\ IF r.budget_fixed # None THEN ret.budget = r.budget_fixed[1]
             ELSE IF r.budget_min # None /\ r.budget_max # None
                  THEN /\ 2 * ret.budget <= r.budget_min[1] + r.budget_max[1]
                       /\ r.budget_min[1] + r.budget_max[1] < 2 * ret.budget + 2
                  ELSE IF r.budget_min # None THEN ret.budget = r.budget_min[1]
                       ELSE ret.budget = 5000

\* C7 witness: no fixed budget, a minimum and a maximum whose sum is odd and
\* negative, resolved to the floor of their mean.
C7_Witness ==
    /\ Returned /\ ~Raised(ret)
    /\ call.raw_input.budget_fixed = None
    /\ call.raw_input.budget_min = Some(-3)
    /\ call.raw_input.budget_max = Some(0)
    /\ ret.budget = -2

\* C8: for every request parse_input accepts, the resolved budget is a non-negative
\* integer.
C8_BudgetNonNegative ==
    (Returned /\ ~Raised(ret)) => ret.budget >= 0

\* C9: a request whose channel_preference is not one of the four allowed values is
\* rejected by parse_input, and run_pipeline runs none of steps 2-10 before
\* reporting failure.
C9_BadPreferenceRejected ==
    raw_input_dict.channel_preference \notin {"Online", "Offline", "Both", "AI Recommend"}
    => /\ \A i \in 1..Len(started) : started[i] = "parse_input"
       /\ cleaned_input = Unset
       /\ pc # "parse_input"
          => /\ pc = "done"
             /\ response = [status |-> 500, detail |-> "Input Parsing Failed"]

\* C9 witness: the request with channel_preference "Hybrid" has been answered.
C9_Witness ==
    /\ raw_input_dict.channel_preference = "Hybrid"
    /\ pc = "done"
    /\ Failed
    /\ started = <<"parse_input">>

\* C10: with exactly one recommended channel and a positive total_budget,
\* allocate_budget gives the whole total_budget to that channel, for every history
\* summary.
C10_SingleChannelTakesAll ==
    (Returned /\ Len(call.recommended_channels) = 1 /\ call.total_budget > 0)
    => ret.budget_split = << <<call.recommended_channels[1], call.total_budget>> >>

\* C10 witness: the only channel is the one the history names as having had the
\* highest Conversion Rate.
C10_Witness ==
    /\ Returned
    /\ call.recommended_channels = <<Pamphlets>>
    /\ call.previous_results = Results(PamphletsHighest)
    /\ high_roi_channel(call.recommended_channels, call.previous_results) = Some(Pamphlets)
    /\ call.total_budget = MaxBudget

\* the word a history summary puts right before " had the highest Conversion Rate"
NamesAsHighest(prev, word) ==
    /\ prev.has_summary
    /\ Contains(prev.previous_campaign_summary, word \o HadHighestPhrase)
    /\ \/ IndexOf(prev.previous_campaign_summary, word \o HadHighestPhrase) = 1
       \/ Contains(prev.previous_campaign_summary, <<" ">> \o word \o HadHighestPhrase)

\* the history names a channel word that no recommended channel contains
NamesAbsentChannel ==
    \E word \in {Pamphlets, <<"A","d","s">>, <<"R","a","d","i","o">>} :
        /\ NamesAsHighest(call.previous_results, word)
        /\ \A i \in 1..Len(call.recommended_channels) :
              ~Contains(call.recommended_channels[i], word)

Distinct(list) == \A i, j \in 1..Len(list) : list[i] = list[j] => i = j

\* position i of the base split: floor(total/n), plus 1 for the first (total mod n)
BaseAmount(total, n, i) == (total \div n) + (IF i - 1 < total % n THEN 1 ELSE 0)

\* C11 as stated: when the history names as highest a word no recommended channel
\* contains, the result gives every channel of the list, in input order, floor(total/n)
\* plus 1 for the first (total mod n) positions.
C11_AbsentChannelBaseSplit ==
    (Returned /\ NamesAbsentChannel /\ call.total_budget > 0
     /\ Len(call.recommended_channels) > 0)
    => \A i \in 1..Len(call.recommended_channels) :
          DictGet(ret.budget_split, call.recommended_channels[i], -1)
          = BaseAmount(call.total_budget, Len(call.recommended_channels), i)

\* C11 amended: under the same history, for a positive budget and pairwise distinct
\* channel names the result is exactly the base split in input order; when a name
\* repeats, the split holds one amount per name, none below floor(total/n), and
\* still sums to the budget; for a budget <= 0 the split is empty.
C11_AbsentChannelBaseSplitDistinct ==
    (Returned /\ NamesAbsentChannel /\ Len(call.recommended_channels) > 0)
    => LET n == Len(call.recommended_channels)
           total == call.total_budget
       IN IF total <= 0 THEN ret.budget_split = <<>>
          ELSE IF Distinct(call.recommended_channels)
               THEN ret.budget_split
                    = [i \in 1..n |-> <<call.recommended_channels[i],
                                        BaseAmount(total, n, i)>>]
               ELSE /\ \A k \in 1..Len(ret.budget_split) :
                          ret.budget_split[k][2] >= total \div n
                    /\ DictSum(ret.budget_split) = total
                    /\ {ret.budget_split[k][1] : k \in 1..Len(ret.budget_split)}
                       = {call.recommended_channels[i] : i \in 1..n}

\* C11 witness: "Radio had the highest Conversion Rate", three distinct channels and
\* a budget that leaves a remainder of one.
C11_Witness ==
    /\ Returned
    /\ call.previous_results = Results(RadioHighest)
    /\ call.recommended_channels = <<FBAds, Pamphlets, InStore>>
    /\ call.total_budget = 3 * (MaxBudget \div 3) + 1
    /\ ret.budget_split = << <<FBAds, (MaxBudget \div 3) + 1>>,
                             <<Pamphlets, MaxBudget \div 3>>,
                             <<InStore, MaxBudget \div 3>> >>

\* the generator returned an object whose budget_split is present, not empty and
\* does not sum to the total budget
RawSplitOff ==
    /\ Returned /\ call.chain_ok /\ call.gen.kind = "result"
    /\ "budget_split" \in DOMAIN call.gen.value
    /\ call.gen.value.budget_split # <<>>
    /\ DictSum(call.gen.value.budget_split) # call.total_budget

\* position of the largest raw amount, the first one on a tie
FirstLargest(raw) ==
    CHOOSE m \in 1..Len(raw) :
        /\ \A k \in 1..Len(raw) : raw[k][2] <= raw[m][2]
        /\ \A k \in 1..(m - 1) : raw[k][2] < raw[m][2]

\* the raw split with the whole difference added at the largest amount
DiffAtLargest(raw, total) ==
    [k \in 1..Len(raw) |->
        <<raw[k][1],
          raw[k][2] + (IF k = FirstLargest(raw) THEN total - DictSum(raw) ELSE 0)>>]

\* last position of a name in a list
LastIndexOf(list, name) ==
    CHOOSE i \in 1..Len(list) :
        list[i] = name /\ \A k \in (i + 1)..Len(list) : list[k] # name

\* C12 as stated: when the raw split's sum differs from total_budget, the whole
\* difference is added to the channel with the largest raw amount (the first on a
\* tie) and every other amount is unchanged (checked for a total >= 0 and a result
\* that lists its channels).
C12_DiffToLargest ==
    (RawSplitOff /\ call.total_budget >= 0
     /\ "recommended_channels" \in DOMAIN call.gen.value
     /\ call.gen.value.recommended_channels # <<>>)
    => /\ ~ErrorObject(ret)
       /\ ret.budget_split = DiffAtLargest(call.gen.value.budget_split, call.total_budget)

\* C12 amended: as stated when the corrected amount of that channel is >= 0.  When
\* it would be negative the split is rebuilt from recommended_channels, floor(total/n)
\* plus 1 for the first (total mod n) positions, a repeated name keeping its last
\* position's amount; with recommended_channels missing or empty the call returns
\* the error object.
C12_DiffToLargestUnlessNegative ==
    RawSplitOff
    => LET raw == call.gen.value.budget_split
           total == call.total_budget
           corrected == DiffAtLargest(raw, total)
       IN IF corrected[FirstLargest(raw)][2] >= 0
          THEN ~ErrorObject(ret) /\ ret.budget_split = corrected
          ELSE IF "recommended_channels" \in DOMAIN call.gen.value
                  /\ call.gen.value.recommended_channels # <<>>
               THEN LET list == call.gen.value.recommended_channels
                    IN /\ ~ErrorObject(ret)
                       /\ {ret.budget_split[k][1] : k \in 1..Len(ret.budget_split)}
                          = {list[i] : i \in 1..Len(list)}
                       /\ \A k \in 1..Len(ret.budget_split) :
                             ret.budget_split[k][2]
                             = BaseAmount(total, Len(list),
                                          LastIndexOf(list, ret.budget_split[k][1]))
               ELSE ErrorObject(ret)

\* C12 witness: two channels tied at the largest raw amount and a total above their
\* sum: the first takes the whole difference, the second keeps its amount.
C12_Witness ==
    /\ RawSplitOff
    /\ call.gen.value.budget_split = << <<FBAds, 1>>, <<Pamphlets, 1>> >>
    /\ call.total_budget = MaxStratBudget
    /\ ret.budget_split = << <<FBAds, MaxStratBudget - 1>>, <<Pamphlets, 1>> >>

\* the steps of run_pipeline before the aggregation, in order
StepNames == <<"parse_input", "extract_entities", "get_previous_results",
               "analyze_trends", "search_local_context", "generate_persona",
               "generate_strategy", "allocate_budget", "generate_creative",
               "generate_visual_prompts">>

\* something went wrong in the request: the input was rejected, a fatal step returned
\* an error object, or a step met a value it cannot handle
SomethingFailed ==
    \/ (Ran("parse_input") /\ cleaned_input = Unset)
    \/ (audience_persona # Unset /\ ErrorObject(audience_persona))
    \/ (campaign_strategy # Unset /\ ErrorObject(campaign_strategy))
    \/ (creative_content # Unset /\ ErrorObject(creative_content))
    \/ (visual_prompts_result # Unset /\ ErrorObject(visual_prompts_result))
    \/ (Ran("allocate_budget") /\ "json_array" \in DOMAIN campaign_strategy)

\* C13: every failure of a request is answered with status 500 and a detail string,
\* and a plan is returned only when all of steps 1-10 ran and none of them failed.
C13_OneFailureKind ==
    /\ SomethingFailed
       => /\ pc = "done"
          /\ DOMAIN response = {"status", "detail"}
          /\ response.status = 500
          /\ response.detail # ""
    /\ pc = "done"
       => \/ DOMAIN response = {"status", "detail"} /\ response.status = 500
          \/ DOMAIN response = {"status", "plan"} /\ response.status = 200
    /\ PlanReturned
       => /\ ~SomethingFailed
          /\ \A i \in 1..Len(StepNames) : Ran(StepNames[i])
          /\ response.plan = final_plan
          /\ DOMAIN final_plan = {"campaign_overview", "channel_recommendations",
                                  "feedback_loop_note"}

\* C13 witness: the strategy generator wrote a JSON array, which passed the error
\* test of step 7 and raised in step 8; the request was answered as an internal error.
C13_Witness ==
    /\ pc = "done"
    /\ campaign_strategy = JsonArray
    /\ Ran("allocate_budget")
    /\ response = [status |-> 500, detail |-> "An internal error occurred: AttributeError"]

\* C14: in every returned plan the strategy's recommended_channels is a non-empty
\* list of distinct channel names, and channel_recommendations holds exactly one
\* entry per recommended channel, in the same order.
C14_ChannelsNonEmptyDistinct ==
    PlanReturned
    => /\ "recommended_channels" \in DOMAIN campaign_strategy
       /\ campaign_strategy.recommended_channels # <<>>
       /\ Distinct(campaign_strategy.recommended_channels)
       /\ Len(response.plan.channel_recommendations)
          = Len(campaign_strategy.recommended_channels)
       /\ \A i \in 1..Len(response.plan.channel_recommendations) :
             response.plan.channel_recommendations[i].channel_name
             = campaign_strategy.recommended_channels[i]

\* the only online/offline distinction the program makes: main.py:169 tags a channel
\* whose name holds "Ads" or "Online" for link tracking, any other for a QR code
OnlineEntry(rec) == rec.tracking_type = "link"

\* C15: for a request with channel_preference "Both", every returned plan holds at
\* least one online and at least one offline channel among its
\* channel_recommendations, whatever list the generator returned (checked for the
\* default budget, which is above the low-budget threshold, and a plan with channels).
C15_BothMeansOnlineAndOffline ==
    (PlanReturned /\ cleaned_input.channel_preference = "Both"
     /\ cleaned_input.budget >= DefaultBudget
     /\ response.plan.channel_recommendations # <<>>)
    => LET recs == response.plan.channel_recommendations
       IN /\ \E i \in 1..Len(recs) : OnlineEntry(recs[i])
          /\ \E i \in 1..Len(recs) : ~OnlineEntry(recs[i])

\* a snippet text holds one of the indicator words, in any letter case
HasIndicator(snippets) ==
    \E w \in {<<"f","a","i","l","e","d">>, <<"c","o","n","f","i","g","u","r","e","d">>,
              <<"f","o","u","n","d">>} : Contains(Lower(snippets), w)

EventsSummarized == frame.pc \in {"competitor_summary", "return", "done"}
CompetitorsSummarized == frame.pc \in {"return", "done"}

\* C16: in search_local_context, whenever a search's snippets hold "failed",
\* "configured" or "found" (in any letter case), or the summarization chain is
\* unavailable, no generation call is made for that summary and the summary is a
\* fixed sentinel string: the chain-unavailable text when the chain is missing, the
\* nothing-found text otherwise.
C16_IndicatorSkipsGeneration ==
    /\ (EventsSummarized /\ (~call.chain_ok \/ HasIndicator(frame.event_snippets)))
       => /\ frame.event_llm = NotInvoked
          /\ frame.event_summary
             = (IF ~call.chain_ok THEN EventsChainUnavailable ELSE EventsSentinel)
          /\ frame.pc = "done" => ret.local_events_summary = frame.event_summary
    /\ (CompetitorsSummarized
        /\ (~call.chain_ok \/ HasIndicator(frame.competitor_snippets)))
       => /\ frame.competitor_llm = NotInvoked
          /\ frame.competitor_summary
             = (IF ~call.chain_ok THEN CompetitorsChainUnavailable
                ELSE CompetitorsSentinel)
          /\ frame.pc = "done"
             => ret.competitor_types_summary = frame.competitor_summary

\* C16 witness: the chain is available, the event snippets hold "Founded" and the
\* competitor snippets are usable: no event generation call, the event sentinel is
\* returned, and the competitor summary was generated.
C16_Witness ==
    /\ frame.pc = "done"
    /\ call.chain_ok
    /\ frame.event_snippets = FoundedSnippets
    /\ frame.event_llm = NotInvoked
    /\ ret.local_events_summary = EventsSentinel
    /\ frame.competitor_llm = Returns(PlainSummary)

\* the event side failed: its search gave no usable snippets or its generation raised
EventsFailed ==
    /\ EventsSummarized
    /\ HasIndicator(frame.event_snippets) \/ frame.event_llm.kind = "raises"

CompetitorsFailed ==
    /\ CompetitorsSummarized
    /\ HasIndicator(frame.competitor_snippets) \/ frame.competitor_llm.kind = "raises"

\* C17: in search_local_context the two summaries are isolated.  When the event
\* search or the event summarization fails, the competitor summarization is still
\* called on usable competitor snippets and what it returns is the competitor
\* summary of the result (blanks around it removed); a competitor failure likewise
\* leaves the event summary what the event summarization returned; and
\* search_local_context always returns its two summaries.
C17_SummariesIsolated ==
    /\ (call.fn = "search_local_context" /\ frame.pc = "done")
       => /\ DOMAIN ret = {"local_events_summary", "competitor_types_summary"}
          /\ (EventsFailed /\ call.chain_ok /\ ~HasIndicator(frame.competitor_snippets))
             => /\ frame.competitor_llm # NotInvoked
                /\ frame.competitor_llm.kind = "result"
                   => ret.competitor_types_summary = Strip(frame.competitor_llm.value)
          /\ (CompetitorsFailed /\ call.chain_ok /\ ~HasIndicator(frame.event_snippets))
             => /\ frame.event_llm # NotInvoked
                /\ frame.event_llm.kind = "result"
                   => ret.local_events_summary = Strip(frame.event_llm.value)

\* C17 witness: the event summarization raised, the competitor summarization
\* returned a text with blanks around it, and that text, stripped, is in the result
\* next to the event error text.
C17_Witness ==
    /\ frame.pc = "done"
    /\ frame.event_llm = Raises
    /\ frame.competitor_llm = Returns(PaddedSummary)
    /\ ret.local_events_summary = EventsSummaryError
    /\ ret.competitor_types_summary = Strip(PaddedSummary)
    /\ ret.competitor_types_summary # PaddedSummary

\* the texts of one category list of the returned structure
TextsOf(d, k) == {d[k][2][j] : j \in 1..Len(d[k][2])}

EntitiesReturned ==
    /\ Returned
    /\ call.nlp_ok
    /\ ~(\A i \in 1..Len(call.goal_description) : IsSpace(call.goal_description[i]))

\* C18 as stated: in the structure extract_entities returns, no text is in more than
\* one category list, offer_terms counted as a category.
C18_NoTextInTwoCategories ==
    EntitiesReturned
    => \A k, m \in 1..Len(ret.entities) :
          k # m => TextsOf(ret.entities, k) \cap TextsOf(ret.entities, m) = {}

\* C18 amended: no text is in more than one of the seven fixed category lists.
\* offer_terms is outside that rule: it holds the original text of tokens whose
\* keyword went to misc_keywords, so it repeats that keyword whenever the token is
\* written in its lower-case base form.
C18_NoTextInTwoFixedCategories ==
    EntitiesReturned
    => /\ \A k, m \in 1..Len(ret.entities) :
             (k # m /\ ret.entities[k][1] # "offer_terms"
              /\ ret.entities[m][1] # "offer_terms")
             => TextsOf(ret.entities, k) \cap TextsOf(ret.entities, m) = {}
       /\ \A k \in 1..Len(ret.entities) :
             ret.entities[k][1] = "offer_terms"
             => \A t \in TextsOf(ret.entities, k) :
                   \E i \in 1..Len(call.doc.tokens) :
                      /\ call.doc.tokens[i].text = t
                      /\ Lower(call.doc.tokens[i].lemma)
                         \in TextsOf(ret.entities, 7)
       /\ ret.entities[7][1] = "misc_keywords"

\* C18 witness: "Pune" recognised as a place and again, spelled " pune ", as an
\* organisation, and a token whose base form is "pune": the text is in locations
\* only.
C18_Witness ==
    /\ EntitiesReturned
    /\ call.doc.ents = <<Ent("GPE", PuneText), Ent("ORG", <<" ","p","u","n","e"," ">>)>>
    /\ call.doc.tokens = <<Token("PROPN", FALSE, PuneText, PuneText),
                           Token("NOUN", FALSE, SaleText, <<"S","a","l","e","s">>)>>
    /\ ret.entities = << <<"locations", <<Lower(PuneText)>> >>, <<"events", <<>> >>,
                         <<"products_services", <<>> >>, <<"target_groups", <<>> >>,
                         <<"dates_times", <<>> >>, <<"orgs", <<>> >>,
                         <<"misc_keywords", <<SaleText>> >>,
                         <<"offer_terms", << <<"S","a","l","e","s">> >> >> >>

\* C19 as stated: extract_entities called with an empty or whitespace-only goal
\* description returns an empty structure and no error marker.
C19_BlankGoalEmptyStructure ==
    (Returned /\ call.goal_description \in BlankGoals)
    => ret.entities = EmptyDict

\* C19 amended: with the NLP model loaded, a blank goal description gives the empty
\* structure; with the model missing, the error marker is returned for a blank goal
\* as for any other.  The call returns in both cases.
C19_BlankGoalEmptyWhenModelLoaded ==
    (Returned /\ \A i \in 1..Len(call.goal_description) : IsSpace(call.goal_description[i]))
    => IF call.nlp_ok THEN ret.entities = <<>>
       ELSE ret.entities = << <<"error", "spaCy model not available">> >>

\* C19 witness: a goal of a blank, a newline and a tab, with the model loaded.
C19_Witness ==
    /\ Returned
    /\ call.nlp_ok
    /\ call.goal_description = <<" ", "\n", "\t">>
    /\ ret.entities = <<>>

\* C20: the feedback_loop_note of every returned plan is, verbatim, the
\* previous_campaign_summary of the history lookup for the request's user_id: the
\* mocked history text for user123_with_history, the no-history text for any other.
C20_FeedbackNoteIsHistory ==
    PlanReturned
    => /\ response.plan.feedback_loop_note = previous_results.previous_campaign_summary
       /\ response.plan.feedback_loop_note
          = (IF raw_input_dict.user_id = "user123_with_history"
             THEN MockHistorySummary ELSE NoHistorySummary)

\* C20 witness: a plan returned to user123_with_history carries the mocked history
\* text, which is not the no-history text.
C20_Witness ==
    /\ PlanReturned
    /\ raw_input_dict.user_id = "user123_with_history"
    /\ response.plan.feedback_loop_note = MockHistorySummary
    /\ MockHistorySummary # NoHistorySummary
    /\ response.plan.channel_recommendations # <<>>

\* the phrase of the history text, without the blank before it
HadHighestText == Tail(HadHighestPhrase)

\* the first channel of the list holding the word, if any
FirstHolding(list, word) ==
    IF \E i \in 1..Len(list) : Contains(list[i], word)
    THEN Some(list[CHOOSE i \in 1..Len(list) :
                      /\ Contains(list[i], word)
                      /\ \A k \in 1..(i - 1) : ~Contains(list[k], word)])
    ELSE None

\* the split of a list of distinct channels when nothing is boosted
PlainBaseSplit(total, list) ==
    [i \in 1..Len(list) |-> <<list[i], BaseAmount(total, Len(list), i)>>]

\* C21: allocate_budget finds a high-ROI channel only when the history summary holds
\* the phrase "had the highest Conversion Rate": the candidate is the word right
\* before the phrase and the channel is the first recommended channel holding the
\* candidate.  A summary without the phrase gives no high-ROI channel, hence (for
\* distinct channels) the plain base split.
C21_HighRoiOnlyWithPhrase ==
    (Returned /\ call.total_budget > 0 /\ Len(call.recommended_channels) > 0)
    => LET prev == call.previous_results
           list == call.recommended_channels
           high == high_roi_channel(list, prev)
       IN IF ~prev.has_summary
             \/ ~Contains(prev.previous_campaign_summary, HadHighestText)
          THEN /\ high = None
               /\ Distinct(list)
                  => ret.budget_split = PlainBaseSplit(call.total_budget, list)
          ELSE \E word \in {Pamphlets, <<"A","d","s">>, <<"R","a","d","i","o">>} :
                  /\ NamesAsHighest(prev, word)
                  /\ high = FirstHolding(list, word)

\* the base allocation of a channel: the amount of its (last) position in the list
BaseOf(channel) ==
    BaseAmount(call.total_budget, Len(call.recommended_channels),
               LastIndexOf(call.recommended_channels, channel))

\* what the channels other than high lost against their base allocations
RECURSIVE LossOfOthers(_, _, _)
LossOfOthers(split, high, k) ==
    IF k > Len(split) THEN 0
    ELSE (IF split[k][1] = high THEN 0 ELSE BaseOf(split[k][1]) - split[k][2])
         + LossOfOthers(split, high, k + 1)

\* a boost was due: a high-ROI channel among more than one channel
BoostDue ==
    /\ Returned
    /\ call.total_budget > 0
    /\ Len(call.recommended_channels) > 1
    /\ high_roi_channel(call.recommended_channels, call.previous_results) # None

\* the four bounds of C22 on a returned split
BoostWithinBounds ==
    LET split == ret.budget_split
        high == Val(high_roi_channel(call.recommended_channels, call.previous_results))
        added == DictGet(split, high, 0) - BaseOf(high)
        base == call.total_budget \div Len(call.recommended_channels)
    IN /\ added = LossOfOthers(split, high, 1)
       /\ added <= base \div 2
       /\ 5 * added <= BaseOf(high)
       /\ added >= 0
       /\ \A k \in 1..Len(split) :
             split[k][1] # high
             => /\ split[k][2] <= BaseOf(split[k][1])
                /\ 10 * (BaseOf(split[k][1]) - split[k][2]) <= 3 * BaseOf(split[k][1])

\* C22 as stated: when allocate_budget applies a boost, the amount added to the
\* high-ROI channel equals the sum of the reductions of the other channels, is at
\* most min(floor(base/2), 20% of that channel's base allocation), every other
\* channel loses at most 30% of its base allocation, and the high-ROI channel does
\* not end below its base allocation.
C22_BoostBounds ==
    BoostDue => BoostWithinBounds

\* C22 amended: the same, for a list of pairwise distinct channel names.
C22_BoostBoundsDistinct ==
    (BoostDue /\ Distinct(call.recommended_channels)) => BoostWithinBounds

\* C22 witness: three distinct channels, the largest budget, Pamphlets named by the
\* history: it gained what the two others lost, and that is more than nothing.
C22_Witness ==
    /\ BoostDue
    /\ call.recommended_channels = <<FBAds, Pamphlets, InStore>>
    /\ call.total_budget = MaxBudget
    /\ call.previous_results = Results(PamphletsHighest)
    /\ DictGet(ret.budget_split, Pamphlets, 0) > BaseOf(Pamphlets)
    /\ DictGet(ret.budget_split, Pamphlets, 0) - BaseOf(Pamphlets)
       = LossOfOthers(ret.budget_split, Pamphlets, 1)

-----------------------------------------------------------------------------
(* run_pipeline: the order of the steps and of their calls *)

IsStepName(x) == \E i \in 1..Len(StepNames) : StepNames[i] = x

\* the steps started so far, in the order they started
StepsStarted == SelectSeq(started, IsStepName)

\* the calls that were started and have not returned
InFlight == IF frame = Unset THEN {} ELSE frame.in_flight

\* step n has returned its whole result to run_pipeline
StepReturned(n) ==
    CASE n = 1 -> cleaned_input # Unset
      [] n = 2 -> entities \in EntityOutcomes(cfg)
      [] n = 3 -> previous_results # Unset
      [] n = 4 -> trend_data # Unset /\ pc # "analyze_trends:gather"
      [] n = 5 -> local_context # Unset /\ pc # "search_local_context:gather"
      [] n = 6 -> audience_persona # Unset
      [] n = 7 -> campaign_strategy # Unset
      [] n = 8 -> budget_allocation_result # Unset
      [] n = 9 -> creative_content # Unset
      [] n = 10 -> visual_prompts_result # Unset

\* C23: the steps of run_pipeline start in their fixed order, each one only after
\* the step before it has returned its result; the searches of the Context
\* Searcher start only after the Trend Analyzer has returned; and the only calls
\* ever in flight together are the two searches of step 4 or the two of step 5.
C23_StepsInOrder ==
    /\ StepsStarted = SubSeq(StepNames, 1, Len(StepsStarted))
    /\ \A n \in 1..10 : n < Len(StepsStarted) => StepReturned(n)
    /\ (\E i \in 1..Len(started) : started[i] \in {"search:events", "search:competitors"})
          => trend_data # Unset
    /\ \/ InFlight \subseteq {"search:timing", "search:interest"}
       \/ InFlight \subseteq {"search:events", "search:competitors"}
    /\ InFlight # {} => frame.step = StepsStarted[Len(StepsStarted)]

\* both searches of the Context Searcher are in flight, after the Trend Analyzer
\* made its searches and its summary
C23_Witness ==
    /\ InFlight = {"search:events", "search:competitors"}
    /\ Ran("search:timing") /\ Ran("llm:trend_summary")
    /\ trend_data # Unset

-----------------------------------------------------------------------------
(* step_4_trend_analyzer.py: what the step returns without data *)

\* a search of the trend analyzer that brought no snippets
TrendSearchFailed(snippets) ==
    snippets \in {SearchNotConfigured, NoSnippetsFound, SearchRequestFailed}

\* the timing_recommendation texts that say there was nothing to analyse
NoDataTexts == {"No keywords provided.", "No valid search results found.",
                "Search failed for trend analysis."}

TrendKeywords == EntitiesGet(entities, "products_services")
                 \o EntitiesGet(entities, "misc_keywords")

\* the step returns a no-data text and makes no generation call
ReturnsNoData ==
    /\ trend_data' # Unset
    /\ trend_data'.timing_recommendation \in NoDataTexts
    /\ \A i \in 1..Len(started') : started'[i] # "llm:trend_summary"

\* C24: analyze_trends_via_search returns a no-data text without any generation
\* call when the keyword list is empty (then without any search either) and when
\* both of its searches failed.
C24_NoDataWithoutGeneration ==
    [][/\ (pc = "analyze_trends" /\ TrendKeywords = <<>>)
            => (ReturnsNoData /\ started' = Append(started, "analyze_trends"))
       /\ (/\ pc = "analyze_trends:gather" /\ pc' = "search_local_context"
           /\ TrendSearchFailed(frame.timing_snippets)
           /\ TrendSearchFailed(frame.interest_snippets))
            => ReturnsNoData]_vars

-----------------------------------------------------------------------------
(* run_pipeline: failures of the steps that degrade softly *)

\* a search of the context searcher that failed
ContextSearchFailed(snippets) ==
    snippets \in {SearchNotConfigured, NoSnippetsFound, SearchStatusFailed,
                  SearchRequestFailed, SearchUnexpected}

\* the texts the trend analyzer returns in place of a summary
TrendSentinels == NoDataTexts \cup {"Error summarizing trend search results.",
                                    "LLM not available for trend summary."}

\* the texts the context searcher returns in place of a summary
EventSentinels == {EventsSentinel, EventsChainUnavailable, EventsSummaryError}
CompetitorSentinels ==
    {CompetitorsSentinel, CompetitorsChainUnavailable, CompetitorsSummaryError}

SoftStepRunning ==
    pc \in {"extract_entities", "get_previous_results", "analyze_trends",
            "analyze_trends:gather", "search_local_context",
            "search_local_context:gather"}

\* no step from Entity Extraction to the Context Searcher ends the request, and
\* the Context Searcher hands over to the Persona step
SoftStepsNeverHalt ==
    [][SoftStepRunning
         => /\ response' = response
            /\ pc' # "done"
            /\ (pc = "search_local_context:gather" /\ pc' # pc)
                  => (pc' = "generate_persona" /\ local_context' # Unset
                      /\ trend_data' # Unset)]_vars

\* C25: a failure in a step that degrades softly never halts the request: with
\* the NLP model unavailable extract_entities returns its error marker, which
\* gives the Trend Analyzer no keyword and the Context Searcher no event; a step
\* whose searches failed returns a sentinel text; and in each case run_pipeline
\* goes on to the next step and reaches the Persona step.
C25_SoftFailuresContinue ==
    [][/\ SoftStepRunning => (response' = response /\ pc' # "done")
       /\ (pc = "extract_entities" /\ ~cfg.nlp) => entities' = EntitiesUnavailable
       /\ (pc = "analyze_trends" /\ entities = EntitiesUnavailable)
             => /\ TrendKeywords = <<>>
                /\ trend_data'.timing_recommendation = "No keywords provided."
                /\ pc' = "search_local_context"
       /\ (pc = "search_local_context" /\ entities = EntitiesUnavailable)
             => frame'.first_event = None
       /\ (/\ pc = "analyze_trends:gather" /\ pc' # pc
           /\ TrendSearchFailed(frame.timing_snippets)
           /\ TrendSearchFailed(frame.interest_snippets))
             => /\ trend_data'.timing_recommendation \in TrendSentinels
                /\ pc' = "search_local_context"
       /\ (pc = "search_local_context:gather" /\ pc' # pc)
             => /\ pc' = "generate_persona"
                /\ ContextSearchFailed(frame.event_snippets)
                      => local_context'.local_events_summary \in EventSentinels
                /\ ContextSearchFailed(frame.competitor_snippets)
                      => local_context'.competitor_types_summary
                            \in CompetitorSentinels]_vars

-----------------------------------------------------------------------------
(* run_pipeline: how often each collaborator is called *)

SearchCalls == {"search:timing", "search:interest", "search:events",
                "search:competitors"}
GenerationCalls == {"llm:trend_summary", "llm:event_summary",
                    "llm:competitor_summary", "llm:persona", "llm:strategy",
                    "llm:creative", "llm:visual"}

\* how many times the call was started in this request
TimesCalled(c) == Cardinality({i \in 1..Len(started) : started[i] = c})

\* C26: within one request each of the four searches and each of the seven
\* generation calls is made at most once, also after it failed.
C26_EachCallAtMostOnce ==
    \A c \in SearchCalls \cup GenerationCalls : TimesCalled(c) <= 1

\* the persona call failed and ended the request: it was made once, as were the
\* four searches and the three summaries before it
C26_Witness ==
    /\ pc = "done" /\ Failed
    /\ audience_persona = PersonaFailed
    /\ TimesCalled("llm:persona") = 1
    /\ \A c \in SearchCalls : TimesCalled(c) = 1
    /\ \A c \in {"llm:trend_summary", "llm:event_summary", "llm:competitor_summary"} :
          TimesCalled(c) = 1
    /\ trend_data.timing_recommendation = "Error summarizing trend search results."

-----------------------------------------------------------------------------
(* run_pipeline: generated values that do not match their schema *)

\* CampaignStrategy of step_7: the object names its channels
MatchesStrategySchema(x) == "recommended_channels" \in DOMAIN x

\* VisualPrompts of step_10: exactly two prompts
MatchesVisualSchema(x) == "visual_prompts" \in DOMAIN x /\ Len(x.visual_prompts) = 2

\* C27: a generated value that does not match the step's schema is treated like
\* a failed call: the step yields an error object and the request ends with a
\* failure. Stated for a strategy object without recommended_channels and for
\* visual prompts that are not exactly two.
C27_SchemaMismatchIsFailure ==
    /\ (/\ campaign_strategy # Unset /\ IsDict(campaign_strategy)
        /\ ~MatchesStrategySchema(campaign_strategy))
          => (IsError(campaign_strategy) /\ pc = "done" /\ Failed)
    /\ (visual_prompts_result # Unset /\ ~MatchesVisualSchema(visual_prompts_result))
          => (IsError(visual_prompts_result) /\ pc = "done" /\ Failed)

\* a plan is returned although a generated value did not match its schema
SchemaMismatchInPlan ==
    /\ PlanReturned
    /\ \/ ~MatchesStrategySchema(campaign_strategy)
       \/ ~MatchesVisualSchema(visual_prompts_result)

-----------------------------------------------------------------------------
(* generate_strategy: the equal re-split *)

\* the corrected amount of the largest raw allocation would be negative
CorrectionNegative ==
    /\ RawSplitOff
    /\ LET raw == call.gen.value.budget_split
       IN raw[FirstLargest(raw)][2] + call.total_budget - DictSum(raw) < 0

\* the generated strategy names at least one channel
ListsChannels ==
    /\ "recommended_channels" \in DOMAIN call.gen.value
    /\ call.gen.value.recommended_channels # <<>>

\* C28: when adding the difference would make the largest channel's amount
\* negative, the whole budget_split is replaced by the equal split of total_budget
\* over recommended_channels: position i gets floor(total/n), plus 1 if it is among
\* the first (total mod n), a name keeping the amount of its last position.  For
\* total_budget >= 0 and distinct channels the new split gives every channel of the
\* list its amount in list order, has no negative value and sums to total_budget.
C28_NegativeCorrectionResplits ==
    (CorrectionNegative /\ ListsChannels)
    => LET list == call.gen.value.recommended_channels
           total == call.total_budget
           split == ret.budget_split
       IN /\ ~ErrorObject(ret)
          /\ {split[k][1] : k \in 1..Len(split)} = {list[i] : i \in 1..Len(list)}
          /\ \A k \in 1..Len(split) :
                split[k][2] = BaseAmount(total, Len(list), LastIndexOf(list, split[k][1]))
          /\ (total >= 0 /\ Distinct(list))
                => /\ split = PlainBaseSplit(total, list)
                   /\ NonNegative(split)
                   /\ DictSum(split) = total

\* two channels with the largest raw amount each and a total of 1: the raw split
\* is dropped, the first channel gets 1 and the second 0
C28_Witness ==
    /\ CorrectionNegative /\ ListsChannels
    /\ call.gen.value.budget_split = << <<FBAds, MaxRawAmount>>, <<Pamphlets, MaxRawAmount>> >>
    /\ call.gen.value.recommended_channels = <<Pamphlets, FBAds>>
    /\ call.total_budget = 1
    /\ ret.budget_split = << <<Pamphlets, 1>>, <<FBAds, 0>> >>

-----------------------------------------------------------------------------
(* search_local_context: failure texts of search_google *)

\* C29: every failure text search_google can return holds one of the words
\* search_local_context tests for, so the summarization chain is never invoked
\* with a failure text as its search results.
C29_FailureNeverSummarized ==
    /\ (EventsSummarized /\ ContextSearchFailed(frame.event_snippets))
          => frame.event_llm = NotInvoked
    /\ (CompetitorsSummarized /\ ContextSearchFailed(frame.competitor_snippets))
          => frame.competitor_llm = NotInvoked

\* the one failure text without any of the words
UnexpectedHasNoIndicator == ~HasIndicator(SearchUnexpected)

-----------------------------------------------------------------------------
(* run_pipeline: the budgets allocated from the stored history *)

\* step 8 ran on a strategy object
Allocated == budget_allocation_result # Unset

PathChannels == recommended_channels_of(campaign_strategy)

\* every entry of the plan carries its position's share of the base split
PlanIsBaseSplit ==
    \A i \in 1..Len(final_plan.channel_recommendations) :
        final_plan.channel_recommendations[i].allocated_budget
        = BaseAmount(cleaned_input.budget, Len(PathChannels), i)

====
